---- MODULE Spec2Model ----
(***************************************************************************)
(* A model of the ECSY runtime core (build/ecsy.module.js): the entity     *)
(* store with its object pools and deferred removal queues, the query      *)
(* index, the per-system event buffers and the system scheduler.           *)
(*                                                                         *)
(* Every method of the source is a pure operator from a world state S (a   *)
(* record holding the fields of the objects) to the world state after the  *)
(* call; an action applies one public call to the variables.               *)
(***************************************************************************)
EXTENDS Integers, Sequences, FiniteSets, TLC

VARIABLES
  entities,                        \* EntityManager._entities
  tags,                            \* EntityManager._tags : tag -> entities
  queryKeys,                       \* keys of QueryManager._queries, in insertion order
  queries,                         \* QueryManager._queries : key -> Query
  entityPool,                      \* EntityManager._entityPool (count, freeList)
  componentPool,                   \* ComponentManager._componentPool : type -> pool
  numComponents,                   \* ComponentManager.numComponents : type -> count
  hooks,                           \* per component class, the method aquire can find on an instance
  fields,                          \* the component instances: type -> instance -> field value
  entitiesToRemove,                \* EntityManager.entitiesToRemove
  entitiesWithComponentsToRemove,  \* EntityManager.entitiesWithComponentsToRemove
  ent,                             \* the Entity objects: handle -> fields
  nextId,                          \* the module's nextId
  events,                          \* System.events : buffer -> list of entities
  systems,                         \* SystemManager.systems (instances, sorted)
  sys,                             \* the System objects: instance -> fields
  enabled,                         \* World.enabled
  tickPos,                         \* forEach index of SystemManager.execute (0: no tick running)
  tickSystems,                     \* the systems array as forEach found it (its length is forEach's len)
  executing,                       \* the system whose execute is running (0: none)
  emitted,                         \* history: per buffer, emissions since its system's last execute
  tickLog,                         \* history: the calls made by the running / last tick
  listeners,                       \* World.eventDispatcher._listeners : event name -> callbacks
  emit,                            \* the dispatchEvent of World.emitEvent under way: its array and index
  subscribed                       \* history: event name -> callback -> addEventListener calls since its last removal

vars == <<entities, tags, queryKeys, queries, entityPool, componentPool, numComponents,
          hooks, fields,
          entitiesToRemove, entitiesWithComponentsToRemove, ent, nextId, events,
          systems, sys, enabled, tickPos, tickSystems, executing, emitted, tickLog,
          listeners, emit, subscribed>>

dispatcherVars == <<listeners, emit, subscribed>>

worldVars == <<entities, tags, queryKeys, queries, entityPool, componentPool, numComponents,
               hooks, fields,
               entitiesToRemove, entitiesWithComponentsToRemove, ent, nextId, events,
               emitted>>

storeVars == <<worldVars, dispatcherVars>>

schedVars == <<systems, sys, enabled, tickPos, tickSystems, executing, tickLog>>

----
\* Bounds of the model.

\* Entity objects that exist at all (the domain of ent).
MaxHandles == 3
\* System instances ever constructed.
MaxSystems == 4
\* Saturation of the emission counters of the history variable emitted.
MaxCount == 2

Handles == 1..MaxHandles

\* The limits a specification puts on the store: entity objects the entity pool
\* allocates, instances a component pool allocates, the length of an entity's
\* componentsToRemove, of entitiesToRemove, and of a free list, and how far a
\* count of numComponents may leave the range from 0 to the entity objects, and
\* the highest value of nextId (0: the specification does not follow the ids).
Limits(handles, instances, pending, queue, free, drift, ids) ==
  [handles |-> handles, instances |-> instances, pending |-> pending,
   queue |-> queue, free |-> free, drift |-> drift, ids |-> ids]

----
\* Generic helpers for JavaScript arrays (1-based here; index 0 stands for -1).

Range(s) == {s[i] : i \in DOMAIN s}

\* Array.prototype.indexOf: the first position of x, 0 (JS -1) when absent.
IndexOf(s, x) ==
  IF \E i \in DOMAIN s : s[i] = x
  THEN CHOOSE i \in DOMAIN s : s[i] = x /\ \A j \in 1..(i - 1) : s[j] # x
  ELSE 0

\* Array.prototype.splice(index, 1); splice(-1, 1) removes the last element.
Splice1(s, index) ==
  LET i == IF index = 0 THEN Len(s) ELSE index
  IN IF i = 0 THEN s
     ELSE [j \in 1..(Len(s) - 1) |-> IF j < i THEN s[j] ELSE s[j + 1]]

Front(s) == [j \in 1..(Len(s) - 1) |-> s[j]]
Last(s) == s[Len(s)]

Count(s, x) == Cardinality({i \in DOMAIN s : s[i] = x})

----
\* Component types and query requests.

ComponentClasses == {"A", "B"}

\* Component.name as UTF-16 code units.
getName(Component) == IF Component = "A" THEN <<65>> ELSE <<66>>

\* A bare component class in a components list, and Not(Component).
Comp(C) == [operator |-> "", Component |-> C]
Not(C) == [operator |-> "not", Component |-> C]

\* String.prototype.toLowerCase on code units.
toLowerCase(x) == [i \in DOMAIN x |-> IF x[i] \in 65..90 THEN x[i] + 32 ELSE x[i]]

\* The order Array.prototype.sort uses by default: by code unit, a prefix first.
StrLess(a, b) ==
  \E i \in 1..Len(b) :
    /\ \A j \in 1..(i - 1) : j <= Len(a) /\ a[j] = b[j]
    /\ (i > Len(a) \/ a[i] < b[i])

RECURSIVE InsertSorted(_, _)
InsertSorted(s, x) ==
  IF s = <<>> THEN <<x>>
  ELSE IF StrLess(x, s[1]) THEN <<x>> \o s
  ELSE <<s[1]>> \o InsertSorted(Tail(s), x)

RECURSIVE SortStrings(_)
SortStrings(s) ==
  IF s = <<>> THEN <<>> ELSE InsertSorted(SortStrings(Front(s)), Last(s))

RECURSIVE Join(_)
Join(s) ==
  IF s = <<>> THEN <<>>
  ELSE IF Len(s) = 1 THEN s[1]
  ELSE s[1] \o <<45>> \o Join(Tail(s))

\* A variant of queryKey that joins the names in the order given.
queryKeyUnsorted(Components) ==
  LET names == [n \in DOMAIN Components |->
                  IF Components[n].operator = "not"
                  THEN <<33>> \o getName(Components[n].Component)
                  ELSE getName(Components[n].Component)]
  IN Join([n \in DOMAIN names |-> toLowerCase(names[n])])

queryKey(Components) ==
  LET names == [n \in DOMAIN Components |->
                  IF Components[n].operator = "not"
                  THEN <<33>> \o getName(Components[n].Component)
                  ELSE getName(Components[n].Component)]
  IN Join(SortStrings([n \in DOMAIN names |-> toLowerCase(names[n])]))

\* Topics of a query's event dispatcher.
ENTITY_ADDED == "Query#ENTITY_ADDED"
ENTITY_REMOVED == "Query#ENTITY_REMOVED"
COMPONENT_CHANGED == "Query#COMPONENT_CHANGED"
Topics == {ENTITY_ADDED, ENTITY_REMOVED, COMPONENT_CHANGED}

\* The value of a missing property / of Array.prototype.pop on a hole.
undefined == 0

\* The event name and the callbacks the host uses with World.addEventListener.
EventNames == {"hit"}
MaxCallbacks == 3
\* Saturation of the history's count of addEventListener calls.
MaxAdded == 2
Callbacks == 1..MaxCallbacks

\* No dispatchEvent of the world's dispatcher is under way.
NoEmit ==
  [eventName |-> "", array |-> <<>>, i |-> 0, invoked |-> <<>>,
   expected |-> [c \in Callbacks |-> 0]]

----
\* The world state the operators below transform.  fired lists the dispatchEvent
\* calls of the operation under way, in order, seen what a listener of each finds
\* when it is called, called lists the listeners they invoked, and thrown tells
\* that the operation ended in an exception; the four start afresh with each call.

World ==
  [entities |-> entities, tags |-> tags, queryKeys |-> queryKeys, queries |-> queries,
   entityPool |-> entityPool, componentPool |-> componentPool,
   entitiesToRemove |-> entitiesToRemove,
   entitiesWithComponentsToRemove |-> entitiesWithComponentsToRemove,
   ent |-> ent, nextId |-> nextId, events |-> events, emitted |-> emitted,
   numComponents |-> numComponents, hooks |-> hooks, fields |-> fields,
   fired |-> <<>>, seen |-> <<>>, called |-> <<>>, thrown |-> FALSE]

\* throw new Error(...), or a TypeError: the operation ends here.
throw(S) == [S EXCEPT !.thrown = TRUE]

Commit(S) ==
  /\ entities' = S.entities
  /\ tags' = S.tags
  /\ queryKeys' = S.queryKeys
  /\ queries' = S.queries
  /\ entityPool' = S.entityPool
  /\ componentPool' = S.componentPool
  /\ numComponents' = S.numComponents
  /\ hooks' = S.hooks
  /\ fields' = S.fields
  /\ entitiesToRemove' = S.entitiesToRemove
  /\ entitiesWithComponentsToRemove' = S.entitiesWithComponentsToRemove
  /\ ent' = S.ent
  /\ nextId' = S.nextId
  /\ events' = S.events
  /\ emitted' = S.emitted
  /\ UNCHANGED dispatcherVars

----
\* ObjectPool (items are numbered in allocation order).

\* A variant of the growth that rounds up: Math.ceil(count * 0.2).
Ceil02(count) == (count + 4) \div 5

\* Math.round(count * 0.2)
Round02(count) == (2 * count + 5) \div 10

expand(pool, n) ==
  [count |-> pool.count + n,
   freeList |-> pool.freeList \o [i \in 1..n |-> pool.count + i]]

\* The pool after aquire's growth and pop, and the item popped.
aquire(pool) ==
  LET grown == IF Len(pool.freeList) <= 0
               THEN expand(pool, Round02(pool.count) + 1)
               ELSE pool
  IN [pool |-> [grown EXCEPT !.freeList = Front(grown.freeList)],
      item |-> Last(grown.freeList)]

release(pool, item) == [pool EXCEPT !.freeList = Append(@, item)]

totalUsed(pool) == pool.count - Len(pool.freeList)

----
\* EventDispatcher of a query, and the listeners a System constructor adds to it.

\* A variant of the listener that pushes without looking the entity up.
EntityListenerAlwaysPushes(S, l, entity) ==
  [S EXCEPT !.events[l.buffer] = Append(@, entity)]

\* The listener of an EntityAdded / EntityRemoved / EntityChanged entry.
EntityListener(S, l, entity) ==
  IF IndexOf(S.events[l.buffer], entity) = 0
  THEN [S EXCEPT !.events[l.buffer] = Append(@, entity)]
  ELSE S

\* The component argument of a listener: the instance and its class, or
\* undefined.
ComponentOf(S, entity, Component) ==
  [constructor |-> Component, item |-> S.ent[entity].components[Component]]

NoComponent == [constructor |-> "", item |-> undefined]

\* The listener of a ComponentChanged entry; `component.constructor` of an
\* undefined component is a TypeError.
ComponentChangedListener(S, l, entity, component) ==
  IF component.item = undefined THEN throw(S)
  ELSE IF IndexOf(l.components, component.constructor) # 0
  THEN [S EXCEPT !.events[l.buffer] = Append(@, entity)]
  ELSE S

\* array[i].call(this, entity, component)
callListener(S, l, entity, component) ==
  LET S1 == [S EXCEPT !.called = Append(@, l.buffer)]
  IN IF l.filtered
     THEN ComponentChangedListener(S1, l, entity, component)
     ELSE EntityListener(S1, l, entity)

\* The loop of dispatchEvent: nothing catches what a listener throws.
RECURSIVE callListeners(_, _, _, _, _)
callListeners(S, array, i, entity, component) ==
  IF i > Len(array) \/ S.thrown THEN S
  ELSE callListeners(callListener(S, array[i], entity, component),
                     array, i + 1, entity, component)

\* History: the emission is counted for every buffer whose entry names the topic.
Record(S, key, eventName, entity) ==
  [S EXCEPT !.emitted =
     [b \in DOMAIN S.emitted |->
        IF S.emitted[b].key = key /\ S.emitted[b].topic = eventName
        THEN [S.emitted[b] EXCEPT !.n[entity] = IF @ < MaxCount THEN @ + 1 ELSE @]
        ELSE S.emitted[b]]]

\* What the listeners of a dispatchEvent find when they look: every query's
\* entity list, and every entity's component types and instances.
Lists(S) ==
  [entities |-> [key \in DOMAIN S.queries |-> S.queries[key].entities],
   ComponentTypes |-> [e \in DOMAIN S.ent |-> S.ent[e].ComponentTypes],
   components |-> [e \in DOMAIN S.ent |-> S.ent[e].components]]

\* stats.fired++ of a dispatcher (a query's, under its key, or the manager's);
\* the listeners run at this point of the caller.
fire(S, dispatcher, eventName, entity) ==
  [S EXCEPT !.fired = Append(@, [dispatcher |-> dispatcher, eventName |-> eventName,
                                 entity |-> entity]),
            !.seen = Append(@, Lists(S))]

\* dispatchEvent of a query's dispatcher.
dispatchEvent(S, key, eventName, entity, component) ==
  callListeners(Record(fire(S, key, eventName, entity), key, eventName, entity),
                S.queries[key].listeners[eventName], 1, entity, component)

\* Event names of the EntityManager's dispatcher, and its dispatchEvent (the
\* manager's dispatcher has no listener here).
ENTITY_CREATED == "EntityManager#ENTITY_CREATE"
EntityManager_ENTITY_REMOVED == "EntityManager#ENTITY_REMOVED"
COMPONENT_ADDED == "EntityManager#COMPONENT_ADDED"
COMPONENT_REMOVE == "EntityManager#COMPONENT_REMOVE"

managerDispatchEvent(S, eventName, entity) == fire(S, <<>>, eventName, entity)

\* ComponentManager.registerComponent: the count of the type starts again at 0.
registerComponent(S, Component) == [S EXCEPT !.numComponents[Component] = 0]

\* ComponentManager.componentAddedToEntity / componentRemovedFromEntity.
componentAddedToEntity(S, Component) ==
  [S EXCEPT !.numComponents[Component] = IF @ = 0 THEN 1 ELSE @ + 1]

componentRemovedFromEntity(S, Component) ==
  [S EXCEPT !.numComponents[Component] = @ - 1]

----
\* Query

match(S, key, entity) ==
  /\ \A i \in DOMAIN S.queries[key].Components :
       IndexOf(S.ent[entity].ComponentTypes, S.queries[key].Components[i]) # 0
  /\ \A i \in DOMAIN S.queries[key].NotComponents :
       IndexOf(S.ent[entity].ComponentTypes, S.queries[key].NotComponents[i]) = 0

\* A variant of addEntity that dispatches before it pushes.
addEntityAfterEvent(S, key, entity) ==
  LET S1 == dispatchEvent(S, key, ENTITY_ADDED, entity, NoComponent)
  IN [S1 EXCEPT !.ent[entity].queries = Append(@, key),
                !.queries[key].entities = Append(@, entity)]

addEntity(S, key, entity) ==
  dispatchEvent([S EXCEPT !.ent[entity].queries = Append(@, key),
                          !.queries[key].entities = Append(@, entity)],
                key, ENTITY_ADDED, entity, NoComponent)

\* A variant of Query.removeEntity that dispatches nothing.
QueryRemoveEntitySilently(S, key, entity) ==
  LET index == IndexOf(S.queries[key].entities, entity)
  IN IF index # 0
     THEN [S EXCEPT !.queries[key].entities = Splice1(@, index),
                    !.ent[entity].queries = Splice1(@, IndexOf(@, key))]
     ELSE S

QueryRemoveEntity(S, key, entity) ==
  LET index == IndexOf(S.queries[key].entities, entity)
  IN IF index # 0
     THEN dispatchEvent(
            [S EXCEPT !.queries[key].entities = Splice1(@, index),
                      !.ent[entity].queries = Splice1(@, IndexOf(@, key))],
            key, ENTITY_REMOVED, entity, NoComponent)
     ELSE S

----
\* QueryManager

RECURSIVE onEntityRemovedFrom(_, _, _)
onEntityRemovedFrom(S, i, entity) ==
  IF i > Len(S.queryKeys) THEN S
  ELSE LET key == S.queryKeys[i]
       IN onEntityRemovedFrom(
            IF IndexOf(S.ent[entity].queries, key) # 0
            THEN QueryRemoveEntity(S, key, entity)
            ELSE S,
            i + 1, entity)

onEntityRemoved(S, entity) == onEntityRemovedFrom(S, 1, entity)

\* A variant of the iteration below that adds the entity without calling match.
ComponentAddedStepWithoutMatch(S, key, entity, Component) ==
  IF /\ IndexOf(S.queries[key].NotComponents, Component) # 0
     /\ IndexOf(S.queries[key].entities, entity) # 0
  THEN QueryRemoveEntity(S, key, entity)
  ELSE IF \/ IndexOf(S.queries[key].Components, Component) = 0
          \/ IndexOf(S.queries[key].entities, entity) # 0
       THEN S
       ELSE addEntity(S, key, entity)

\* One iteration of the loop of onEntityComponentAdded.
ComponentAddedStep(S, key, entity, Component) ==
  IF /\ IndexOf(S.queries[key].NotComponents, Component) # 0
     /\ IndexOf(S.queries[key].entities, entity) # 0
  THEN QueryRemoveEntity(S, key, entity)
  ELSE IF \/ IndexOf(S.queries[key].Components, Component) = 0
          \/ ~match(S, key, entity)
          \/ IndexOf(S.queries[key].entities, entity) # 0
       THEN S
       ELSE addEntity(S, key, entity)

RECURSIVE onEntityComponentAddedFrom(_, _, _, _)
onEntityComponentAddedFrom(S, i, entity, Component) ==
  IF i > Len(S.queryKeys) THEN S
  ELSE onEntityComponentAddedFrom(
         ComponentAddedStep(S, S.queryKeys[i], entity, Component),
         i + 1, entity, Component)

onEntityComponentAdded(S, entity, Component) ==
  onEntityComponentAddedFrom(S, 1, entity, Component)

\* One iteration of the loop of onEntityComponentRemoved.
ComponentRemovedStep(S, key, entity, Component) ==
  IF /\ IndexOf(S.queries[key].NotComponents, Component) # 0
     /\ IndexOf(S.queries[key].entities, entity) = 0
  THEN addEntity(S, key, entity)
  ELSE IF IndexOf(S.queries[key].Components, Component) = 0 THEN S
  ELSE IF ~match(S, key, entity) THEN S
  ELSE QueryRemoveEntity(S, key, entity)

RECURSIVE onEntityComponentRemovedFrom(_, _, _, _)
onEntityComponentRemovedFrom(S, i, entity, Component) ==
  IF i > Len(S.queryKeys) THEN S
  ELSE onEntityComponentRemovedFrom(
         ComponentRemovedStep(S, S.queryKeys[i], entity, Component),
         i + 1, entity, Component)

onEntityComponentRemoved(S, entity, Component) ==
  onEntityComponentRemovedFrom(S, 1, entity, Component)

\* The Components / NotComponents split of the Query constructor.
RequiredOf(Components) ==
  SelectSeq([n \in DOMAIN Components |-> Components[n]], LAMBDA c : c.operator = "")
NegatedOf(Components) ==
  SelectSeq([n \in DOMAIN Components |-> Components[n]], LAMBDA c : c.operator # "")

\* A variant of the constructor's scan that adds with addEntity, and so
\* dispatches ENTITY_ADDED.
RECURSIVE fillQueryWithEvents(_, _, _)
fillQueryWithEvents(S, key, i) ==
  IF i > Len(S.entities) THEN S
  ELSE LET entity == S.entities[i]
       IN fillQueryWithEvents(
            IF match(S, key, entity) THEN addEntity(S, key, entity) ELSE S,
            key, i + 1)

\* The constructor's scan of manager._entities, from position i.
RECURSIVE fillQuery(_, _, _)
fillQuery(S, key, i) ==
  IF i > Len(S.entities) THEN S
  ELSE LET entity == S.entities[i]
       IN fillQuery(
            IF match(S, key, entity)
            THEN [S EXCEPT !.ent[entity].queries = Append(@, key),
                           !.queries[key].entities = Append(@, entity)]
            ELSE S,
            key, i + 1)

NewQuery(Components) ==
  [Components |-> [n \in DOMAIN RequiredOf(Components) |-> RequiredOf(Components)[n].Component],
   NotComponents |-> [n \in DOMAIN NegatedOf(Components) |-> NegatedOf(Components)[n].Component],
   entities |-> <<>>,
   reactive |-> FALSE,
   listeners |-> [t \in Topics |-> <<>>]]

\* A variant of getQuery whose constructor accepts an empty required list.
getQueryUnchecked(S, Components) ==
  LET key == queryKey(Components)
  IN IF key \in DOMAIN S.queries THEN S
     ELSE fillQuery([S EXCEPT !.queries = (key :> NewQuery(Components)) @@ @,
                              !.queryKeys = Append(@, key)],
                    key, 1)

\* getQuery: the world after the call; the constructor throws on an empty
\* required list before anything is stored.
getQuery(S, Components) ==
  LET key == queryKey(Components)
  IN IF key \in DOMAIN S.queries THEN S
     ELSE IF Len(RequiredOf(Components)) = 0 THEN throw(S)
     ELSE fillQuery([S EXCEPT !.queries = (key :> NewQuery(Components)) @@ @,
                              !.queryKeys = Append(@, key)],
                    key, 1)

----
\* Entity and EntityManager

Tags == {"t"}

\* The fields the Entity constructor sets.
NewEntity ==
  [id |-> 0, world |-> FALSE, ComponentTypes |-> <<>>,
   components |-> [C \in ComponentClasses |-> undefined],
   tags |-> <<>>, queries |-> <<>>, componentsToRemove |-> <<>>]

\* Entity.__init: a new id, and every field but componentsToRemove.
init(e, id) ==
  [e EXCEPT !.id = id, !.world = FALSE, !.ComponentTypes = <<>>, !.queries = <<>>,
            !.components = [C \in ComponentClasses |-> undefined], !.tags = <<>>]

\* The Entity constructor, for the objects expand has added to the entity pool:
\* each takes the next id.
constructEntities(S, count) ==
  [S EXCEPT !.nextId = @ + (count - S.entityPool.count),
            !.ent = [h \in Handles |->
                       IF h > S.entityPool.count /\ h <= count
                       THEN [NewEntity EXCEPT !.id = S.nextId + (h - S.entityPool.count - 1)]
                       ELSE @[h]]]

createEntity(S) ==
  LET a == aquire(S.entityPool)
      entity == a.item
      S1 == constructEntities(S, a.pool.count)
  IN managerDispatchEvent(
       [S1 EXCEPT !.entityPool = a.pool,
                  !.nextId = @ + 1,
                  !.ent[entity] = [init(@, S1.nextId) EXCEPT !.world = TRUE],
                  !.entities = Append(@, entity)],
       ENTITY_CREATED, entity)

\* The methods a component class can define for the pool and for addComponent:
\* __init and copy are the two aquire looks for; reset is one it does not.
HookKinds == {"__init", "copy", "reset", "none"}

\* The field value the class constructor sets (that of the pool's initialObject).
initialObject == 0

\* createElement for the instances expand has added to a component pool.
createElements(f, count) == f \o [i \in 1..(count - Len(f)) |-> initialObject]

\* aquire's treatment of the popped item: item.__init() if there is one, else
\* item.copy(this.initialObject) if there is one, else nothing.
initItem(S, Component, item) ==
  IF S.hooks[Component] \in {"__init", "copy"}
  THEN [S EXCEPT !.fields[Component][item] = initialObject]
  ELSE S

\* The values argument: component.copy(values), or the field-wise copy.
copyValues(S, Component, item, values) ==
  IF values # undefined
  THEN [S EXCEPT !.fields[Component][item] = values]
  ELSE S

\* The part of entityAddComponent after the ownership test; when the pool hands
\* out undefined, `item.__init` throws a TypeError and the call ends there, after
\* the type was pushed.
attachComponent(S, entity, Component, values) ==
  LET a == aquire(S.componentPool[Component])
      S1 == [S EXCEPT !.ent[entity].ComponentTypes = Append(@, Component),
                      !.componentPool[Component] = a.pool,
                      !.fields[Component] = createElements(@, a.pool.count)]
  IN IF a.item = undefined THEN throw(S1)
     ELSE managerDispatchEvent(
            componentAddedToEntity(
              onEntityComponentAdded(
                copyValues(
                  initItem([S1 EXCEPT !.ent[entity].components[Component] = a.item],
                           Component, a.item),
                  Component, a.item, values),
                entity, Component),
              Component),
            COMPONENT_ADDED, entity)

\* A variant of entityAddComponent without the ownership test.
entityAddComponentAgain(S, entity, Component, values) ==
  attachComponent(S, entity, Component, values)

entityAddComponent(S, entity, Component, values) ==
  IF IndexOf(S.ent[entity].ComponentTypes, Component) # 0 THEN S
  ELSE attachComponent(S, entity, Component, values)

\* A variant of _entityRemoveComponentSync that forgets to delete the property
\* reference on the entity.
entityRemoveComponentSyncKeepsRef(S, entity, Component, index) ==
  componentRemovedFromEntity(
    [S EXCEPT !.ent[entity].ComponentTypes = Splice1(@, index),
              !.componentPool[Component] =
                 release(@, S.ent[entity].components[Component])],
    Component)

entityRemoveComponentSync(S, entity, Component, index) ==
  componentRemovedFromEntity(
    [S EXCEPT !.ent[entity].ComponentTypes = Splice1(@, index),
              !.ent[entity].components[Component] = undefined,
              !.componentPool[Component] =
                 release(@, S.ent[entity].components[Component])],
    Component)

\* A variant of entityRemoveComponent without the ownership test.
entityRemoveComponentAnyway(S, entity, Component, forceRemove) ==
  LET index == IndexOf(S.ent[entity].ComponentTypes, Component)
      S1 == onEntityComponentRemoved(
              managerDispatchEvent(S, COMPONENT_REMOVE, entity), entity, Component)
  IN IF forceRemove
     THEN entityRemoveComponentSync(S1, entity, Component, index)
     ELSE [S1 EXCEPT
             !.entitiesWithComponentsToRemove =
                IF Len(S1.ent[entity].componentsToRemove) = 0
                THEN Append(@, entity) ELSE @,
             !.ent[entity].componentsToRemove = Append(@, Component)]

entityRemoveComponent(S, entity, Component, forceRemove) ==
  LET index == IndexOf(S.ent[entity].ComponentTypes, Component)
  IN IF index = 0 THEN S
     ELSE LET S1 == onEntityComponentRemoved(
                      managerDispatchEvent(S, COMPONENT_REMOVE, entity),
                      entity, Component)
          IN IF forceRemove
             THEN entityRemoveComponentSync(S1, entity, Component, index)
             ELSE [S1 EXCEPT
                     !.entitiesWithComponentsToRemove =
                        IF Len(S1.ent[entity].componentsToRemove) = 0
                        THEN Append(@, entity) ELSE @,
                     !.ent[entity].componentsToRemove = Append(@, Component)]

\* The loop of entityRemoveAllComponents, at index j of the live type list.
RECURSIVE entityRemoveAllComponentsFrom(_, _, _, _)
entityRemoveAllComponentsFrom(S, entity, j, forceRemove) ==
  IF j < 1 THEN S
  ELSE entityRemoveAllComponentsFrom(
         IF j <= Len(S.ent[entity].ComponentTypes)
         THEN entityRemoveComponent(S, entity, S.ent[entity].ComponentTypes[j], forceRemove)
         ELSE S,
         entity, j - 1, forceRemove)

entityRemoveAllComponents(S, entity, forceRemove) ==
  entityRemoveAllComponentsFrom(S, entity, Len(S.ent[entity].ComponentTypes), forceRemove)

removeEntitySync(S, entity, index) ==
  LET S1 == entityRemoveAllComponents(
              [S EXCEPT !.entities = Splice1(@, index)], entity, TRUE)
  IN [S1 EXCEPT !.ent[entity].tags = <<>>,
                !.tags = [tag \in DOMAIN S1.tags |->
                            IF IndexOf(S1.tags[tag], entity) # 0
                            THEN Splice1(S1.tags[tag], IndexOf(S1.tags[tag], entity))
                            ELSE S1.tags[tag]],
                !.ent[entity].world = FALSE,
                !.entityPool = release(@, entity)]

\* A variant of the two statements below that takes the entity out of the
\* queries before it dispatches.
announceRemovalAfterIndex(S, entity) ==
  managerDispatchEvent(onEntityRemoved(S, entity), EntityManager_ENTITY_REMOVED, entity)

\* The two statements of removeEntity after the test of the index: dispatchEvent
\* of ENTITY_REMOVED, then onEntityRemoved.
announceRemoval(S, entity) ==
  onEntityRemoved(managerDispatchEvent(S, EntityManager_ENTITY_REMOVED, entity), entity)

\* A variant of removeEntity without the test of the index.
removeEntityUnchecked(S, entity, forceRemove) ==
  LET index == IndexOf(S.entities, entity)
      S1 == announceRemoval(S, entity)
  IN IF forceRemove THEN removeEntitySync(S1, entity, index)
     ELSE [S1 EXCEPT !.entitiesToRemove = Append(@, entity)]

removeEntity(S, entity, forceRemove) ==
  LET index == IndexOf(S.entities, entity)
      S1 == announceRemoval(S, entity)
  IN IF index = 0 THEN throw(S)
     ELSE IF forceRemove THEN removeEntitySync(S1, entity, index)
     ELSE [S1 EXCEPT !.entitiesToRemove = Append(@, entity)]

RECURSIVE removePendingEntities(_, _)
removePendingEntities(S, i) ==
  IF i > Len(S.entitiesToRemove) THEN S
  ELSE LET entity == S.entitiesToRemove[i]
       IN removePendingEntities(
            removeEntitySync(S, entity, IndexOf(S.entities, entity)), i + 1)

\* A variant of the loop below that detaches only the last requested type.
removePendingComponentsOnce(S, entity) ==
  IF Len(S.ent[entity].componentsToRemove) = 0 THEN S
  ELSE LET Component == Last(S.ent[entity].componentsToRemove)
           S1 == [S EXCEPT !.ent[entity].componentsToRemove = Front(@)]
       IN entityRemoveComponentSync(S1, entity, Component,
                                    IndexOf(S1.ent[entity].ComponentTypes, Component))

\* The while loop over one entity's componentsToRemove.
RECURSIVE removePendingComponentsOf(_, _)
removePendingComponentsOf(S, entity) ==
  IF Len(S.ent[entity].componentsToRemove) = 0 THEN S
  ELSE LET Component == Last(S.ent[entity].componentsToRemove)
           S1 == [S EXCEPT !.ent[entity].componentsToRemove = Front(@)]
       IN removePendingComponentsOf(
            entityRemoveComponentSync(S1, entity, Component,
                                      IndexOf(S1.ent[entity].ComponentTypes, Component)),
            entity)

RECURSIVE removePendingComponents(_, _)
removePendingComponents(S, i) ==
  IF i > Len(S.entitiesWithComponentsToRemove) THEN S
  ELSE removePendingComponents(
         removePendingComponentsOf(S, S.entitiesWithComponentsToRemove[i]), i + 1)

processDeferredRemoval(S) ==
  LET S1 == [removePendingEntities(S, 1) EXCEPT !.entitiesToRemove = <<>>]
  IN [removePendingComponents(S1, 1) EXCEPT !.entitiesWithComponentsToRemove = <<>>]

entityAddTag(S, entity, tag) ==
  IF IndexOf(S.tags[tag], entity) # 0 THEN S
  ELSE [S EXCEPT !.tags[tag] = Append(@, entity),
                 !.ent[entity].tags = Append(@, tag)]

entityRemoveTag(S, entity, tag) ==
  LET index == IndexOf(S.tags[tag], entity)
  IN IF index = 0 THEN S
     ELSE [S EXCEPT !.tags[tag] = Splice1(@, index),
                    !.ent[entity].tags = Splice1(@, IndexOf(@, tag))]

\* The loop of removeEntitiesByTag over a snapshot position x of the tag's list.
\* entity.remove() throws, and ends the loop, for an entity without a world or
\* one that is not in the entity list.
RECURSIVE removeEntitiesByTagFrom(_, _, _)
removeEntitiesByTagFrom(S, tag, x) ==
  IF x < 1 THEN S
  ELSE IF ~S.ent[S.tags[tag][x]].world \/ IndexOf(S.entities, S.tags[tag][x]) = 0 THEN throw(S)
  ELSE removeEntitiesByTagFrom(removeEntity(S, S.tags[tag][x], FALSE), tag, x - 1)

removeEntitiesByTag(S, tag) == removeEntitiesByTagFrom(S, tag, Len(S.tags[tag]))

\* Entity.getMutableComponent: the loop over the entity's queries; an
\* exception of a listener ends it.
RECURSIVE getMutableComponentFrom(_, _, _, _)
getMutableComponentFrom(S, entity, i, component) ==
  IF i > Len(S.ent[entity].queries) \/ S.thrown THEN S
  ELSE LET key == S.ent[entity].queries[i]
       IN getMutableComponentFrom(
            IF S.queries[key].reactive
            THEN dispatchEvent(S, key, COMPONENT_CHANGED, entity, component)
            ELSE S,
            entity, i + 1, component)

getMutableComponent(S, entity, Component) ==
  getMutableComponentFrom(S, entity, 1, ComponentOf(S, entity, Component))

----
\* The bounds, as a condition on the world an operation leaves.

SumOver(f, D) ==
  LET RECURSIVE sum(_)
      sum(X) == IF X = {} THEN 0
                ELSE LET x == CHOOSE x \in X : TRUE IN f[x] + sum(X \ {x})
  IN sum(D)

\* What a component pool's free list can still grow to: every attached type and
\* every pending removal ends in a release.
Releasable(S, C) ==
  Len(S.componentPool[C].freeList)
    + SumOver([h \in Handles |-> Count(S.ent[h].componentsToRemove, C)
                                  + Count(S.ent[h].ComponentTypes, C)], Handles)

Bounded(S, L) ==
  /\ S.entityPool.count <= L.handles
  /\ Len(S.entityPool.freeList) + Len(S.entitiesToRemove) <= L.free
  /\ Len(S.entities) <= L.free
  /\ Len(S.entitiesToRemove) <= L.queue
  /\ \A C \in ComponentClasses :
       /\ S.componentPool[C].count <= L.instances
       /\ Releasable(S, C) <= L.free
       /\ S.numComponents[C] \in (0 - L.drift)..(L.handles + L.drift)
  /\ \A h \in Handles : Len(S.ent[h].componentsToRemove) <= L.pending
  /\ L.ids = 0 \/ S.nextId <= L.ids

\* Under a limit of 0 the ids are not followed: nextId and the id fields stay as
\* at the start.
Followed(S, L) ==
  IF L.ids = 0
  THEN [S EXCEPT !.nextId = 1, !.ent = [h \in Handles |-> [S.ent[h] EXCEPT !.id = 0]]]
  ELSE S

----
\* Initial state: a new World with no system, entity or query.

Construct(classHooks) ==
  /\ hooks = classHooks
  /\ fields = [C \in ComponentClasses |-> <<>>]
  /\ entities = <<>>
  /\ tags = [tag \in Tags |-> <<>>]
  /\ queryKeys = <<>>
  /\ queries = <<>>
  /\ entityPool = [count |-> 0, freeList |-> <<>>]
  /\ componentPool = [C \in ComponentClasses |-> [count |-> 0, freeList |-> <<>>]]
  /\ numComponents = [C \in ComponentClasses |-> 0]
  /\ entitiesToRemove = <<>>
  /\ entitiesWithComponentsToRemove = <<>>
  /\ ent = [h \in Handles |-> NewEntity]
  /\ nextId = 1
  /\ events = <<>>
  /\ systems = <<>>
  /\ sys = <<>>
  /\ enabled = TRUE
  /\ tickPos = 0
  /\ tickSystems = <<>>
  /\ executing = 0
  /\ emitted = <<>>
  /\ tickLog = <<>>
  /\ listeners = [eventName \in EventNames |-> <<>>]
  /\ emit = NoEmit
  /\ subscribed = [eventName \in EventNames |-> [c \in Callbacks |-> 0]]

\* A world whose component classes are plain data classes.
Init == Construct([C \in ComponentClasses |-> "none"])

----
\* Store calls.  They come from the host between ticks or from the execute of
\* the running system; an Entity method needs the entity's _world.

CanCall == tickPos = 0 \/ executing # 0

\* The Entity objects a caller can hold.
Allocated == 1..entityPool.count

Apply(S, L) == Bounded(S, L) /\ Commit(Followed(S, L)) /\ UNCHANGED schedVars

CreateEntity(L) ==
  /\ CanCall
  /\ Apply(createEntity(World), L)

\* The values a caller passes to addComponent.
Values == {undefined, 1}

AddComponentWith(L, entity, Component, values) ==
  /\ CanCall
  /\ ent[entity].world
  /\ Apply(entityAddComponent(World, entity, Component, values), L)

AddComponent(L, entity, Component) == AddComponentWith(L, entity, Component, undefined)

RemoveComponent(L, entity, Component, forceRemove) ==
  /\ CanCall
  /\ ent[entity].world
  /\ Apply(entityRemoveComponent(World, entity, Component, forceRemove), L)

\* An entity that is not in the list makes removeEntity throw.
RemoveEntity(L, entity, forceRemove) ==
  /\ CanCall
  /\ ent[entity].world
  /\ IndexOf(entities, entity) # 0
  /\ Apply(removeEntity(World, entity, forceRemove), L)

GetQuery(L, Components) ==
  /\ CanCall
  /\ Apply(getQuery(World, Components), L)

\* world.execute of a world without systems: only the deferred removals run.
ProcessDeferredRemoval(L) ==
  /\ tickPos = 0
  /\ enabled
  /\ systems = <<>>
  /\ Apply(processDeferredRemoval(World), L)

AddTag(L, entity, tag) ==
  /\ CanCall
  /\ ent[entity].world
  /\ Apply(entityAddTag(World, entity, tag), L)

RemoveTag(L, entity, tag) ==
  /\ CanCall
  /\ ent[entity].world
  /\ Apply(entityRemoveTag(World, entity, tag), L)

RemoveEntitiesByTag(L, tag) ==
  /\ CanCall
  /\ Apply(removeEntitiesByTag(World, tag), L)

----
\* The entity store with its queries: entities, components, queries, removals.

StoreHandles == 1
StoreInstances == 2
StorePending == 1
StoreQueue == 1
StoreFree == 2
StoreLimits == Limits(StoreHandles, StoreInstances, StorePending, StoreQueue, StoreFree, 0, 0)

StoreRequests == {<<Comp("A")>>, <<Comp("A"), Not("B")>>}

StoreCreateEntity == CreateEntity(StoreLimits)
StoreAddComponent ==
  \E e \in Allocated : \E C \in ComponentClasses : AddComponent(StoreLimits, e, C)
StoreRemoveComponent ==
  \E e \in Allocated : \E C \in ComponentClasses : \E f \in BOOLEAN :
    RemoveComponent(StoreLimits, e, C, f)
StoreRemoveEntity == \E e \in Allocated : \E f \in BOOLEAN : RemoveEntity(StoreLimits, e, f)
StoreGetQuery == \E r \in StoreRequests : GetQuery(StoreLimits, r)
StoreProcessDeferredRemoval == ProcessDeferredRemoval(StoreLimits)

NextStore ==
  \/ StoreCreateEntity
  \/ StoreAddComponent
  \/ StoreRemoveComponent
  \/ StoreRemoveEntity
  \/ StoreGetQuery
  \/ StoreProcessDeferredRemoval

SpecStore == Init /\ [][NextStore]_vars

----
\* The component pools: entities of one component type, with no query.

PoolHandles == 2
PoolInstances == 2
PoolPending == 2
PoolQueue == 1
PoolFree == 3
PoolDrift == 1
PoolLimits == Limits(PoolHandles, PoolInstances, PoolPending, PoolQueue, PoolFree, PoolDrift, 0)

PoolCreateEntity == CreateEntity(PoolLimits)
PoolAddComponent == \E e \in Allocated : AddComponent(PoolLimits, e, "A")
PoolRemoveComponent ==
  \E e \in Allocated : \E f \in BOOLEAN : RemoveComponent(PoolLimits, e, "A", f)
PoolRemoveEntity == \E e \in Allocated : RemoveEntity(PoolLimits, e, TRUE)
PoolProcessDeferredRemoval == ProcessDeferredRemoval(PoolLimits)
PoolRegisterComponent ==
  /\ CanCall
  /\ Apply(registerComponent(World, "A"), PoolLimits)

NextPool ==
  \/ PoolCreateEntity
  \/ PoolAddComponent
  \/ PoolRemoveComponent
  \/ PoolRemoveEntity
  \/ PoolProcessDeferredRemoval
  \/ PoolRegisterComponent

SpecPool == Init /\ [][NextPool]_vars

----
\* The store when every removal is forced (no deferred queue is used).

ForcedHandles == 2
ForcedInstances == 2
ForcedFree == 2
ForcedLimits == Limits(ForcedHandles, ForcedInstances, 0, 0, ForcedFree, 0, 0)

ForcedCreateEntity == CreateEntity(ForcedLimits)
ForcedAddComponent ==
  \E e \in Allocated : \E C \in ComponentClasses : AddComponent(ForcedLimits, e, C)
ForcedRemoveComponent ==
  \E e \in Allocated : \E C \in ComponentClasses : RemoveComponent(ForcedLimits, e, C, TRUE)
ForcedRemoveEntity == \E e \in Allocated : RemoveEntity(ForcedLimits, e, TRUE)
ForcedGetQuery == \E r \in StoreRequests : GetQuery(ForcedLimits, r)

NextForced ==
  \/ ForcedCreateEntity
  \/ ForcedAddComponent
  \/ ForcedRemoveComponent
  \/ ForcedRemoveEntity
  \/ ForcedGetQuery

SpecForced == Init /\ [][NextForced]_vars

----
\* Properties of the entity store and the query index.

Owned(e) == Range(ent[e].ComponentTypes)

\* The membership condition of a query, stated on sets of component types.
Satisfies(key, e) ==
  /\ Range(queries[key].Components) \subseteq Owned(e)
  /\ Range(queries[key].NotComponents) \cap Owned(e) = {}

InQuery(key, e) == e \in Range(queries[key].entities)

\* C1: query membership soundness.  For every query Q and every entity E of the
\* store, E is in Q.entities if and only if E's component types include every
\* required type of Q and no forbidden type of Q.
QueryMembershipSoundness ==
  \A key \in DOMAIN queries : \A e \in Range(entities) :
    InQuery(key, e) <=> Satisfies(key, e)

PendingRemoval(e) == e \in Range(entitiesToRemove)
Released(e) == e \in Range(entityPool.freeList)

\* C2: no query's entity list contains an entity that is pending removal or
\* that has been released to the entity pool.
NoPendingOrReleasedInQuery ==
  \A key \in DOMAIN queries : \A e \in Range(queries[key].entities) :
    ~PendingRemoval(e) /\ ~Released(e)

\* A step that ran processDeferredRemoval over a non-empty entitiesToRemove.
FlushedEntities == entitiesToRemove # <<>> /\ entitiesToRemove' = <<>>

\* C3: deferred-removal safety.  After removeEntity(E, false), E stays in the
\* store's entity list until the next processDeferredRemoval (unless E is removed
\* with force meanwhile); once that processDeferredRemoval has returned, E is in
\* neither the store's entity list nor any query's entity list.
DeferredRemovalSafety ==
  [][/\ \A e \in Range(entitiesToRemove) \cap Range(entities) :
          (~FlushedEntities /\ ~RemoveEntity(StoreLimits, e, TRUE))
             => e \in Range(entities')
     /\ FlushedEntities =>
          \A e \in Range(entitiesToRemove) :
            /\ e \notin Range(entities')
            /\ \A key \in DOMAIN queries' : e \notin Range(queries'[key].entities)
    ]_vars

----
\* Properties of the component pools.

\* The entities whose component map holds instance i of type C.
Holders(C, i) == {e \in Handles : ent[e].components[C] = i}

\* The number of instances of type C held in the entities' component maps.
HeldInstances(C) == Cardinality({e \in Handles : ent[e].components[C] # undefined})

\* C4: pool conservation.  For every component type: the free list is no longer
\* than the allocated count, every free-list entry is an instance of the pool,
\* used = total - free is the number of instances held in component maps, and
\* every entity owning the type holds one instance that is not in the free list.
PoolConservation ==
  \A C \in ComponentClasses :
    /\ Len(componentPool[C].freeList) <= componentPool[C].count
    /\ \A i \in DOMAIN componentPool[C].freeList :
         componentPool[C].freeList[i] \in 1..componentPool[C].count
    /\ totalUsed(componentPool[C]) = HeldInstances(C)
    /\ \A e \in Handles :
         C \in Owned(e) =>
           /\ ent[e].components[C] # undefined
           /\ ent[e].components[C] \notin Range(componentPool[C].freeList)

\* C5: component-instance exclusivity.  An instance held by an entity is in
\* exactly one entity's component map and not in the free list of its pool; a
\* released instance is in the free list exactly once and in no component map.
InstanceExclusivity ==
  \A C \in ComponentClasses : \A i \in 1..componentPool[C].count :
    /\ Holders(C, i) # {} =>
         /\ Cardinality(Holders(C, i)) = 1
         /\ Count(componentPool[C].freeList, i) = 0
    /\ Count(componentPool[C].freeList, i) > 0 =>
         /\ Count(componentPool[C].freeList, i) = 1
         /\ Holders(C, i) = {}

\* Reached: of two allocated instances of a pool, one is attached to an entity
\* while the other, released by its former owner, waits in the free list.
InstanceExclusivityWitness ==
  \E C \in ComponentClasses : \E i, j \in 1..componentPool[C].count :
    /\ i # j
    /\ Holders(C, i) # {}
    /\ j \in Range(componentPool[C].freeList)

----
\* The tag index: entities and tags, with no component and no query.

TagHandles == 2
TagQueue == 2
TagFree == 3
TagLimits == Limits(TagHandles, 0, 0, TagQueue, TagFree, 0, 0)

TagCreateEntity == CreateEntity(TagLimits)
TagRemoveEntity == \E e \in Allocated : \E f \in BOOLEAN : RemoveEntity(TagLimits, e, f)
TagProcessDeferredRemoval == ProcessDeferredRemoval(TagLimits)
TagAddTag == \E e \in Allocated : \E tag \in Tags : AddTag(TagLimits, e, tag)
TagRemoveTag == \E e \in Allocated : \E tag \in Tags : RemoveTag(TagLimits, e, tag)
TagRemoveEntitiesByTag == \E tag \in Tags : RemoveEntitiesByTag(TagLimits, tag)

NextTags ==
  \/ TagCreateEntity
  \/ TagRemoveEntity
  \/ TagProcessDeferredRemoval
  \/ TagAddTag
  \/ TagRemoveTag
  \/ TagRemoveEntitiesByTag

SpecTags == Init /\ [][NextTags]_vars

\* C6: tag bijection.  Entity e is in the store's reverse index of tag t if and
\* only if t is in e's own tag list.
TagBijection ==
  \A tag \in Tags : \A e \in Handles :
    e \in Range(tags[tag]) <=> tag \in Range(ent[e].tags)

----
\* System and SystemManager

\* The System subclasses of the model: Idle has no init; Mover asks for a query
\* only (as the systems of the ball example do); Watcher also asks for the three
\* entity-keyed events of its query; Tracker asks for the changes of A's
\* instances in its query.
SystemClasses == {"Idle", "Mover", "Watcher", "Tracker"}

config(cls) ==
  IF cls = "Idle" THEN [queries |-> <<>>]
  ELSE IF cls = "Mover"
  THEN [queries |-> <<[name |-> "entities", components |-> <<Comp("A")>>, events |-> <<>>]>>]
  ELSE IF cls = "Watcher"
  THEN [queries |->
          <<[name |-> "q", components |-> <<Comp("A")>>,
             events |-> <<[name |-> "added", event |-> "EntityAdded", components |-> <<>>],
                          [name |-> "removed", event |-> "EntityRemoved",
                           components |-> <<>>],
                          [name |-> "changed", event |-> "EntityChanged",
                           components |-> <<>>]>>]>>]
  ELSE [queries |->
          <<[name |-> "q", components |-> <<Comp("A")>>,
             events |-> <<[name |-> "changed", event |-> "ComponentChanged",
                           components |-> <<"A">>]>>]>>]

EntityEvents == {"EntityAdded", "EntityRemoved", "EntityChanged"}

eventMapping(event) ==
  IF event = "EntityAdded" THEN ENTITY_ADDED
  ELSE IF event = "EntityRemoved" THEN ENTITY_REMOVED
  ELSE COMPONENT_CHANGED

\* One entry of queryConfig.events: a new buffer and its listener on the query.
subscribe(S, system, key, queryName, event) ==
  LET buffer == <<system, queryName, event.name>>
      S1 == [S EXCEPT
               !.events = (buffer :> <<>>) @@ @,
               !.emitted = (buffer :> [key |-> key, topic |-> eventMapping(event.event),
                                       event |-> event.event,
                                       n |-> [h \in Handles |-> 0]]) @@ @]
  IN IF event.event \in EntityEvents
     THEN [S1 EXCEPT
             !.queries[key].listeners[eventMapping(event.event)] =
                Append(@, [buffer |-> buffer, filtered |-> FALSE, components |-> <<>>]),
             !.queries[key].reactive = @ \/ event.event = "EntityChanged"]
     ELSE IF event.event = "ComponentChanged"
     THEN [S1 EXCEPT
             !.queries[key].listeners[COMPONENT_CHANGED] =
                Append(@, [buffer |-> buffer, filtered |-> TRUE,
                           components |-> event.components]),
             !.queries[key].reactive = TRUE]
     ELSE S1

RECURSIVE subscribeAll(_, _, _, _, _, _)
subscribeAll(S, system, key, queryName, eventList, i) ==
  IF i > Len(eventList) THEN S
  ELSE subscribeAll(subscribe(S, system, key, queryName, eventList[i]),
                    system, key, queryName, eventList, i + 1)

\* The loop of the System constructor over config.queries, from entry i.
RECURSIVE constructSystem(_, _, _, _)
constructSystem(S, system, queryList, i) ==
  IF i > Len(queryList) THEN S
  ELSE LET queryConfig == queryList[i]
           S1 == getQuery(S, queryConfig.components)
       IN constructSystem(
            subscribeAll(S1, system, queryKey(queryConfig.components),
                         queryConfig.name, queryConfig.events, 1),
            system, queryList, i + 1)

\* Array.prototype.sort with sortSystems' comparator (a stable sort); objects
\* holds the System objects.
Before(objects, a, b) ==
  \/ objects[a].priority < objects[b].priority
  \/ objects[a].priority = objects[b].priority /\ objects[a].order < objects[b].order

RECURSIVE insertSystem(_, _, _)
insertSystem(objects, s, x) ==
  IF s = <<>> THEN <<x>>
  ELSE IF Before(objects, x, Last(s))
  THEN Append(insertSystem(objects, Front(s), x), Last(s))
  ELSE Append(s, x)

RECURSIVE sortSystems(_, _)
sortSystems(objects, s) ==
  IF s = <<>> THEN <<>>
  ELSE insertSystem(objects, sortSystems(objects, Front(s)), Last(s))

\* A variant of clearEvents that leaves the buffers as they are.
clearEventsKeepsBuffers(S, system) == S

\* System.clearEvents: every buffer of the system is emptied.
clearEvents(S, system) ==
  [S EXCEPT !.events = [b \in DOMAIN S.events |->
                          IF b[1] = system THEN <<>> ELSE S.events[b]]]

\* History: the end of the system's execute opens its next window.
OpenWindow(S, system) ==
  [S EXCEPT !.emitted = [b \in DOMAIN S.emitted |->
                           IF b[1] = system
                           THEN [S.emitted[b] EXCEPT !.n = [h \in Handles |-> 0]]
                           ELSE S.emitted[b]]]

\* The condition under which SystemManager.execute runs a system.
shouldExecute(system) == sys[system].enabled /\ sys[system].initialized

----
\* Scheduler calls, made by the host between ticks or by the running system.

\* The next System instance (instances are numbered in construction order).
NextSystem == Len(sys) + 1

\* The System object the constructor leaves, with the order registerSystem sets.
NewSystem(cls, priority) ==
  [cls |-> cls, enabled |-> TRUE, initialized |-> TRUE,
   priority |-> priority, order |-> Len(systems)]

RegisterSystem(L, max, cls, priority) ==
  /\ CanCall
  /\ NextSystem <= max
  /\ sys' = Append(sys, NewSystem(cls, priority))
  /\ systems' = sortSystems(Append(sys, NewSystem(cls, priority)),
                            Append(systems, NextSystem))
  /\ LET S == constructSystem(World, NextSystem, config(cls).queries, 1)
     IN Bounded(S, L) /\ Commit(S)
  /\ UNCHANGED <<enabled, tickPos, tickSystems, executing, tickLog>>

RemoveSystem(system) ==
  /\ CanCall
  /\ IndexOf(systems, system) # 0
  /\ systems' = Splice1(systems, IndexOf(systems, system))
  /\ UNCHANGED <<sys, enabled, tickPos, tickSystems, executing, tickLog>>
  /\ UNCHANGED storeVars

SystemStop(system) ==
  /\ tickPos = 0
  /\ sys[system].enabled
  /\ sys' = [sys EXCEPT ![system].enabled = FALSE]
  /\ UNCHANGED <<systems, enabled, tickPos, tickSystems, executing, tickLog>>
  /\ UNCHANGED storeVars

SystemPlay(system) ==
  /\ tickPos = 0
  /\ ~sys[system].enabled
  /\ sys' = [sys EXCEPT ![system].enabled = TRUE]
  /\ UNCHANGED <<systems, enabled, tickPos, tickSystems, executing, tickLog>>
  /\ UNCHANGED storeVars

WorldStop ==
  /\ tickPos = 0
  /\ enabled
  /\ enabled' = FALSE
  /\ UNCHANGED <<systems, sys, tickPos, tickSystems, executing, tickLog>>
  /\ UNCHANGED storeVars

WorldPlay ==
  /\ tickPos = 0
  /\ ~enabled
  /\ enabled' = TRUE
  /\ UNCHANGED <<systems, sys, tickPos, tickSystems, executing, tickLog>>
  /\ UNCHANGED storeVars

----
\* World.execute, in the steps between which the systems' execute run.

\* world.execute on a stopped world does nothing.
ExecuteStopped ==
  /\ tickPos = 0
  /\ ~enabled
  /\ UNCHANGED vars

\* A variant of world.execute that does not look at enabled.
ExecuteStartAnyway ==
  /\ tickPos = 0
  /\ tickPos' = 1
  /\ tickSystems' = systems
  /\ tickLog' = <<>>
  /\ UNCHANGED <<systems, sys, enabled, executing>>
  /\ UNCHANGED storeVars

\* world.execute enters SystemManager.execute: forEach reads the array's length.
ExecuteStart ==
  /\ tickPos = 0
  /\ enabled
  /\ tickPos' = 1
  /\ tickSystems' = systems
  /\ tickLog' = <<>>
  /\ UNCHANGED <<systems, sys, enabled, executing>>
  /\ UNCHANGED storeVars

\* forEach has an index left to visit, and the array has an element there.
Visiting ==
  /\ tickPos \in 1..Len(tickSystems)
  /\ executing = 0

Present == tickPos <= Len(systems)

\* forEach reaches a system that runs: its execute is entered.
SystemExecute ==
  /\ Visiting
  /\ Present
  /\ shouldExecute(systems[tickPos])
  /\ executing' = systems[tickPos]
  /\ tickLog' = Append(tickLog, <<"execute", systems[tickPos]>>)
  /\ UNCHANGED <<systems, sys, enabled, tickPos, tickSystems>>
  /\ UNCHANGED storeVars

\* forEach passes over a system that does not run, or over an index the array
\* has lost.
SystemSkip ==
  /\ Visiting
  /\ Present => ~shouldExecute(systems[tickPos])
  /\ tickPos' = tickPos + 1
  /\ UNCHANGED <<systems, sys, enabled, tickSystems, executing, tickLog>>
  /\ UNCHANGED storeVars

\* execute returns: clearEvents, and forEach moves on.
SystemReturn ==
  /\ executing # 0
  /\ Commit(OpenWindow(clearEvents(World, executing), executing))
  /\ tickLog' = Append(tickLog, <<"clearEvents", executing>>)
  /\ executing' = 0
  /\ tickPos' = tickPos + 1
  /\ UNCHANGED <<systems, sys, enabled, tickSystems>>

\* forEach is over: the deferred removals are processed and world.execute returns.
ExecuteEnd(L) ==
  /\ tickPos > Len(tickSystems)
  /\ LET S == processDeferredRemoval(World)
     IN Bounded(S, L) /\ Commit(S)
  /\ tickLog' = Append(tickLog, <<"processDeferredRemoval", 0>>)
  /\ tickPos' = 0
  /\ tickSystems' = <<>>
  /\ UNCHANGED <<systems, sys, enabled, executing>>

GetMutableComponent(L, entity, Component) ==
  /\ CanCall
  /\ ent[entity].world
  /\ Apply(getMutableComponent(World, entity, Component), L)

----
\* The scheduler alone: systems without queries are registered and removed
\* between ticks, and run.

Priorities == {1, 10}

SchedLimits == Limits(0, 0, 0, 0, 0, 0, 0)

SchedRegisterSystem ==
  /\ tickPos = 0
  /\ \E p \in Priorities : RegisterSystem(SchedLimits, MaxSystems, "Idle", p)
SchedRemoveSystem == tickPos = 0 /\ \E s \in DOMAIN sys : RemoveSystem(s)
SchedExecuteEnd == ExecuteEnd(SchedLimits)

NextSched ==
  \/ SchedRegisterSystem
  \/ SchedRemoveSystem
  \/ ExecuteStart
  \/ SystemExecute
  \/ SystemReturn
  \/ SchedExecuteEnd

SpecSched == Init /\ [][NextSched]_vars

\* The systems whose execute the running / last tick has called, in call order.
Executed == SelectSeq(tickLog, LAMBDA c : c[1] = "execute")

\* C9: priority ordering.  A tick executes the systems in ascending priority,
\* and systems of equal priority in the order of their registration.
PriorityOrdering ==
  \A i, j \in DOMAIN Executed :
    i < j =>
      \/ sys[Executed[i][2]].priority < sys[Executed[j][2]].priority
      \/ /\ sys[Executed[i][2]].priority = sys[Executed[j][2]].priority
         /\ Executed[i][2] < Executed[j][2]

\* How many times the running / last tick has made a call on a system.
Calls(name, system) == Count(tickLog, <<name, system>>)

----
\* The scheduler with systems that are stopped and played between ticks, and
\* registered and removed at any time a call can be made.

PhaseSystems == 3

PhaseRegisterSystem ==
  \E p \in Priorities : RegisterSystem(SchedLimits, PhaseSystems, "Idle", p)
PhaseRemoveSystem == \E s \in DOMAIN sys : RemoveSystem(s)
PhaseSystemStop == \E s \in DOMAIN sys : SystemStop(s)
PhaseSystemPlay == \E s \in DOMAIN sys : SystemPlay(s)

NextPhase ==
  \/ PhaseRegisterSystem
  \/ PhaseRemoveSystem
  \/ PhaseSystemStop
  \/ PhaseSystemPlay
  \/ WorldStop
  \/ WorldPlay
  \/ ExecuteStopped
  \/ ExecuteStart
  \/ SystemExecute
  \/ SystemSkip
  \/ SystemReturn
  \/ SchedExecuteEnd

SpecPhase == Init /\ [][NextPhase]_vars

\* forEach has visited every index.
ForEachOver == tickPos > Len(tickSystems)

\* C10: tick phases.  In a tick, no system has execute called twice and a
\* disabled system never; once forEach is over, every enabled system that was
\* registered when the tick began and still is has had execute called once;
\* each clearEvents comes right after the same system's execute, and each
\* execute is followed by that clearEvents before anything else; and
\* processDeferredRemoval is the last call of a tick, made once.
TickPhases ==
  /\ \A s \in DOMAIN sys : Calls("execute", s) <= 1
  /\ tickPos # 0 => \A s \in DOMAIN sys : ~sys[s].enabled => Calls("execute", s) = 0
  /\ ForEachOver =>
       \A s \in Range(tickSystems) \cap Range(systems) :
         sys[s].enabled => Calls("execute", s) = 1
  /\ \A i \in DOMAIN tickLog :
       /\ tickLog[i][1] = "execute" /\ i < Len(tickLog) =>
            tickLog[i + 1] = <<"clearEvents", tickLog[i][2]>>
       /\ tickLog[i][1] = "clearEvents" =>
            i > 1 /\ tickLog[i - 1] = <<"execute", tickLog[i][2]>>
       /\ tickLog[i][1] = "processDeferredRemoval" => i = Len(tickLog) /\ tickPos = 0
  /\ tickPos = 0 /\ tickLog # <<>> => Last(tickLog)[1] = "processDeferredRemoval"

----
\* Ticks over systems with event buffers, with store calls made by the host
\* between ticks and by the running system.

TickHandles == 1
TickInstances == 1
TickQueue == 1
TickFree == 2
TickSystems == 2
TickLimits == Limits(TickHandles, TickInstances, 0, TickQueue, TickFree, 0, 0)

TickClasses == {"Watcher"}

TickRegisterSystem ==
  /\ tickPos = 0
  /\ \E cls \in TickClasses : RegisterSystem(TickLimits, TickSystems, cls, 0)
TickSystemStop == \E s \in DOMAIN sys : SystemStop(s)
TickSystemPlay == \E s \in DOMAIN sys : SystemPlay(s)
TickCreateEntity == CreateEntity(TickLimits)
TickAddComponent == \E e \in Allocated : AddComponent(TickLimits, e, "A")
TickRemoveComponent == \E e \in Allocated : RemoveComponent(TickLimits, e, "A", TRUE)
TickRemoveEntity == \E e \in Allocated : \E f \in BOOLEAN : RemoveEntity(TickLimits, e, f)
TickGetMutableComponent ==
  \E e \in Allocated : \E C \in ComponentClasses : GetMutableComponent(TickLimits, e, C)
TickExecuteEnd == ExecuteEnd(TickLimits)

NextTick ==
  \/ TickRegisterSystem
  \/ TickSystemStop
  \/ TickSystemPlay
  \/ TickCreateEntity
  \/ TickAddComponent
  \/ TickRemoveComponent
  \/ TickRemoveEntity
  \/ TickGetMutableComponent
  \/ ExecuteStart
  \/ SystemExecute
  \/ SystemSkip
  \/ SystemReturn
  \/ TickExecuteEnd

SpecTick == Init /\ [][NextTick]_vars

\* The buffers of the entity-keyed events.
EntityBuffers == {b \in DOMAIN events : emitted[b].event \in EntityEvents}

\* C7: event idempotence.  An entity occurs at most once in a buffer of an
\* EntityAdded, EntityRemoved or EntityChanged entry, however often the event
\* has fired for it since the buffer was cleared.
EventIdempotence ==
  \A b \in EntityBuffers : \A h \in Handles : Count(events[b], h) <= 1

\* An event has fired twice for an entity since the buffer was cleared, and the
\* buffer holds the entity once.
EventIdempotenceWitness ==
  \E b \in EntityBuffers : \E h \in Handles :
    emitted[b].n[h] >= 2 /\ Count(events[b], h) = 1

\* The entities for which the buffer's event has fired since the end of the last
\* execute of the buffer's system (since its registration, before the first).
Window(b) == {h \in Handles : emitted[b].n[h] > 0}

----
\* The query index under requests that list the same types in different orders.

KeyHandles == 1
KeyInstances == 1
KeyFree == 1
KeyLimits == Limits(KeyHandles, KeyInstances, 0, 0, KeyFree, 0, 0)

\* The Components arrays the callers pass: one and two types, bare and negated,
\* in both orders.
KeyRequests ==
  {<<Comp("A")>>, <<Comp("B")>>,
   <<Comp("A"), Comp("B")>>, <<Comp("B"), Comp("A")>>,
   <<Comp("A"), Not("B")>>, <<Not("B"), Comp("A")>>}

KeyCreateEntity == CreateEntity(KeyLimits)
KeyAddComponent ==
  \E e \in Allocated : \E C \in ComponentClasses : AddComponent(KeyLimits, e, C)
KeyRemoveComponent ==
  \E e \in Allocated : \E C \in ComponentClasses : RemoveComponent(KeyLimits, e, C, TRUE)
KeyGetQuery == \E r \in KeyRequests : GetQuery(KeyLimits, r)

NextKeys ==
  \/ KeyCreateEntity
  \/ KeyAddComponent
  \/ KeyRemoveComponent
  \/ KeyGetQuery

SpecKeys == Init /\ [][NextKeys]_vars

\* Two lists hold the same entries, in any order.
Permutation(L, P) ==
  /\ Len(L) = Len(P)
  /\ \A x \in Range(L) \cup Range(P) : Count(L, x) = Count(P, x)

\* The Components array a query was constructed from.
RequestOf(key) ==
  CHOOSE r \in KeyRequests :
    /\ RequiredOf(r) = [n \in DOMAIN queries[key].Components |-> Comp(queries[key].Components[n])]
    /\ NegatedOf(r) = [n \in DOMAIN queries[key].NotComponents |-> Not(queries[key].NotComponents[n])]
    /\ queryKey(r) = key

\* C11: key canonicalization.  queryKey gives every permutation of a list the
\* same key, and the query index holds one Query object per key: a request
\* finds the object stored under the key of any permutation of it, and no key
\* is stored twice.
KeyCanonicalization ==
  /\ \A L \in KeyRequests : \A P \in KeyRequests :
       Permutation(L, P) => queryKey(L) = queryKey(P)
  /\ \A i \in DOMAIN queryKeys : \A j \in DOMAIN queryKeys :
       queryKeys[i] = queryKeys[j] => i = j
  /\ DOMAIN queries = Range(queryKeys)
  /\ \A L \in KeyRequests :
       (\E key \in DOMAIN queries : Permutation(L, RequestOf(key))) =>
         queryKey(L) \in DOMAIN queries

\* The index holds, under the key of <<A, B>>, the query that was made from
\* <<B, A>>, and the query lists an entity.
KeyCanonicalizationWitness ==
  /\ queryKey(<<Comp("A"), Comp("B")>>) \in DOMAIN queries
  /\ queries[queryKey(<<Comp("A"), Comp("B")>>)].Components = <<"B", "A">>
  /\ queries[queryKey(<<Comp("A"), Comp("B")>>)].entities # <<>>

----
\* The store under addComponent with and without values and removeComponent,
\* forced and deferred, on entities that own the type and on entities that do not.

OwnHandles == 2
OwnInstances == 2
OwnPending == 1
OwnFree == 2
OwnLimits == Limits(OwnHandles, OwnInstances, OwnPending, 0, OwnFree, 0, 0)

OwnCreateEntity == CreateEntity(OwnLimits)
OwnAddComponent ==
  \E e \in Allocated : \E C \in ComponentClasses : \E v \in Values :
    AddComponentWith(OwnLimits, e, C, v)
OwnRemoveComponent ==
  \E e \in Allocated : \E C \in ComponentClasses : \E f \in BOOLEAN :
    (C = "A" \/ f) /\ RemoveComponent(OwnLimits, e, C, f)
OwnGetQuery == \E r \in StoreRequests : GetQuery(OwnLimits, r)
OwnProcessDeferredRemoval == ProcessDeferredRemoval(OwnLimits)

NextOwn ==
  \/ OwnCreateEntity
  \/ OwnAddComponent
  \/ OwnRemoveComponent
  \/ OwnGetQuery
  \/ OwnProcessDeferredRemoval

SpecOwn == Init /\ [][NextOwn]_vars

\* hasComponent: the type is in the entity's _ComponentTypes.
hasComponent(e, C) == IndexOf(ent[e].ComponentTypes, C) # 0

\* C12: DoubleAdd is a silent no-op.  addComponent(E, T, values) on an entity
\* that owns T leaves the whole world as it is (pools, live counts, field
\* values, component maps, queries, buffers, queues) and dispatches no event.
DoubleAddNoOp ==
  \A e \in Handles : \A C \in ComponentClasses : \A v \in Values :
    ent[e].world /\ hasComponent(e, C) =>
      entityAddComponent(World, e, C, v) = World

\* An entity owns A with a written field value and is listed by a query, and
\* the pool of A has a free instance that a second attachment would take.
DoubleAddNoOpWitness ==
  \E e \in Handles :
    /\ ent[e].world /\ hasComponent(e, "A")
    /\ ent[e].components["A"] # undefined
    /\ fields["A"][ent[e].components["A"]] = 1
    /\ ent[e].queries # <<>>
    /\ componentPool["A"].freeList # <<>>

\* C13: removeComponent(E, T, force?) on an entity that does not own T leaves
\* the whole world as it is and dispatches no event.
UnknownComponentNoOp ==
  \A e \in Handles : \A C \in ComponentClasses : \A f \in BOOLEAN :
    ent[e].world /\ ~hasComponent(e, C) =>
      entityRemoveComponent(World, e, C, f) = World

\* An entity owns B and not A, while another entity owns A and a query over A
\* exists.
UnknownComponentNoOpWitness ==
  \E e \in Handles : \E o \in Handles :
    /\ ent[e].world /\ ~hasComponent(e, "A") /\ hasComponent(e, "B")
    /\ ent[o].world /\ hasComponent(o, "A")
    /\ queryKey(<<Comp("A")>>) \in DOMAIN queries

\* C14: removeEntity of an entity that is not in the entity list throws, and
\* the world is as before: no event is dispatched, and the entity list, the
\* queries and both queues are unchanged.
UnknownEntityThrows ==
  \A e \in Allocated : \A f \in BOOLEAN :
    IndexOf(entities, e) = 0 => removeEntity(World, e, f) = throw(World)

\* An entity object is out of the entity list while another entity is in the
\* list and in a query.
UnknownEntityThrowsWitness ==
  \E e \in Allocated : \E o \in Allocated :
    /\ IndexOf(entities, e) = 0
    /\ IndexOf(entities, o) # 0
    /\ ent[o].queries # <<>>

\* Components arrays without a required type.
EmptyRequests == {<<>>, <<Not("A")>>, <<Not("B")>>, <<Not("A"), Not("B")>>}

\* C15: a request with zero required types throws, and the world is as
\* before: the query index has no new query and no entity's list of queries
\* has changed.
EmptyQueryThrows ==
  \A r \in EmptyRequests : getQuery(World, r) = throw(World)

\* The entity list holds an entity without B, which a query of Not(B) alone
\* would list, and the index holds a query.
EmptyQueryThrowsWitness ==
  /\ \E e \in Range(entities) : ~hasComponent(e, "B") /\ hasComponent(e, "A")
  /\ queryKeys # <<>>

----
\* Change events: Watcher and Tracker systems are registered on a store whose
\* entities take and lose A and are removed, at once or deferred; no tick runs,
\* so the buffers only grow.

ChangeHandles == 1
ChangeInstances == 1
ChangeQueue == 2
ChangeFree == 2
ChangeSystems == 2
ChangeBuffer == 2
ChangeLimits == Limits(ChangeHandles, ChangeInstances, 0, ChangeQueue, ChangeFree, 0, 0)

ChangeClasses == {"Watcher", "Tracker"}
ChangeRequests == {<<Comp("A")>>, <<Comp("A"), Not("B")>>}

ChangeRegisterSystem ==
  \E cls \in ChangeClasses : RegisterSystem(ChangeLimits, ChangeSystems, cls, 0)
ChangeCreateEntity == CreateEntity(ChangeLimits)
ChangeAddComponent == \E e \in Allocated : AddComponent(ChangeLimits, e, "A")
ChangeRemoveComponent == \E e \in Allocated : RemoveComponent(ChangeLimits, e, "A", TRUE)
ChangeRemoveEntity ==
  \E e \in Allocated : \E f \in BOOLEAN : RemoveEntity(ChangeLimits, e, f)
ChangeGetQuery == \E r \in ChangeRequests : GetQuery(ChangeLimits, r)
ChangeProcessDeferredRemoval == ProcessDeferredRemoval(ChangeLimits)
ChangeGetMutableComponent ==
  /\ \E e \in Allocated : \E C \in ComponentClasses :
       GetMutableComponent(ChangeLimits, e, C)
  /\ \A b \in DOMAIN events' : Len(events'[b]) <= ChangeBuffer

NextChange ==
  \/ ChangeRegisterSystem
  \/ ChangeCreateEntity
  \/ ChangeAddComponent
  \/ ChangeRemoveComponent
  \/ ChangeRemoveEntity
  \/ ChangeGetQuery
  \/ ChangeProcessDeferredRemoval
  \/ ChangeGetMutableComponent

SpecChange == Init /\ [][NextChange]_vars

\* The listeners of a dispatcher for a topic that the call left uninvoked.
Uninvoked(S, key, eventName) ==
  {i \in DOMAIN queries[key].listeners[eventName] :
     queries[key].listeners[eventName][i].buffer \notin Range(S.called)}

\* C16: an exception of a handler is caught: getMutableComponent, whose emit
\* has called it, does not end in the exception, and every handler of the topic
\* on the reactive queries of the entity has been invoked.
HandlerExceptionCaught ==
  \A e \in Handles : \A C \in ComponentClasses :
    ent[e].world =>
      LET S == getMutableComponent(World, e, C)
      IN /\ ~S.thrown
         /\ \A i \in DOMAIN ent[e].queries :
              queries[ent[e].queries[i]].reactive =>
                Uninvoked(S, ent[e].queries[i], COMPONENT_CHANGED) = {}

\* How many of the dispatchEvent calls in log are this topic for this entity on
\* the dispatcher.
Emissions(log, dispatcher, eventName, entity) ==
  Cardinality({i \in DOMAIN log :
                 log[i] = [dispatcher |-> dispatcher, eventName |-> eventName,
                           entity |-> entity]})

Changes(log) == {i \in DOMAIN log : log[i].eventName = COMPONENT_CHANGED}

\* C17: getMutableComponent(T) on an entity of the store dispatches
\* COMPONENT_CHANGED for it exactly once on every reactive query that lists it
\* and on nothing else; addComponent and removeComponent dispatch no
\* COMPONENT_CHANGED (getComponent and hasComponent are reads of the entity).
ChangeEmission ==
  \A e \in Range(entities) : \A C \in ComponentClasses :
    /\ LET log == getMutableComponent(World, e, C).fired
       IN /\ \A key \in DOMAIN queries :
               Emissions(log, key, COMPONENT_CHANGED, e) =
                 IF queries[key].reactive /\ IndexOf(queries[key].entities, e) # 0
                 THEN 1 ELSE 0
          /\ Cardinality(Changes(log)) = Len(log)
          /\ \A i \in DOMAIN log : log[i].entity = e /\ log[i].dispatcher # <<>>
    /\ \A v \in Values : Changes(entityAddComponent(World, e, C, v).fired) = {}
    /\ \A f \in BOOLEAN : Changes(entityRemoveComponent(World, e, C, f).fired) = {}

----
\* Stop and play: one Watcher system, stopped and played between ticks, an
\* entity that takes and loses A and is removed, both deferred, and ticks on a
\* world that is stopped and started.

GateHandles == 1
GateInstances == 1
GatePending == 2
GateQueue == 2
GateFree == 3
GateSystems == 1
GateLimits == Limits(GateHandles, GateInstances, GatePending, GateQueue, GateFree, 0, 0)

GateRegisterSystem ==
  /\ tickPos = 0
  /\ RegisterSystem(GateLimits, GateSystems, "Watcher", 0)
GateSystemStop == \E s \in DOMAIN sys : SystemStop(s)
GateSystemPlay == \E s \in DOMAIN sys : SystemPlay(s)
GateCreateEntity == CreateEntity(GateLimits)
GateAddComponent == \E e \in Allocated : AddComponent(GateLimits, e, "A")
GateRemoveComponent == \E e \in Allocated : RemoveComponent(GateLimits, e, "A", FALSE)
GateRemoveEntity == \E e \in Allocated : RemoveEntity(GateLimits, e, FALSE)
GateExecuteEnd == ExecuteEnd(GateLimits)

NextGate ==
  \/ GateRegisterSystem
  \/ GateSystemStop
  \/ GateSystemPlay
  \/ GateCreateEntity
  \/ GateAddComponent
  \/ GateRemoveComponent
  \/ GateRemoveEntity
  \/ WorldStop
  \/ WorldPlay
  \/ ExecuteStopped
  \/ ExecuteStart
  \/ SystemExecute
  \/ SystemSkip
  \/ SystemReturn
  \/ GateExecuteEnd

SpecGate == Init /\ [][NextGate]_vars

\* s is an initial part of t.
IsPrefix(s, t) == Len(s) <= Len(t) /\ \A i \in DOMAIN s : s[i] = t[i]

\* The entities with a removal, of themselves or of a component, pending.
PendingEntities == Range(entitiesToRemove) \cup Range(entitiesWithComponentsToRemove)

\* C18: on a stopped world no step of a tick is taken: no system is executing
\* or executed, no buffer is cleared and no deferred removal is processed (the
\* buffers and the queues only grow, by what the host calls); and the tick that
\* ends on a started world has executed every enabled system once and has then
\* processed the deferred removals, which leaves the queues empty.
StoppedWorld ==
  [][/\ ~enabled =>
          /\ tickPos = 0 /\ executing = 0
          /\ tickPos' = 0 /\ executing' = 0 /\ tickLog' = tickLog
          /\ \A b \in DOMAIN events : IsPrefix(events[b], events'[b])
          /\ IsPrefix(entitiesToRemove, entitiesToRemove')
          /\ IsPrefix(entitiesWithComponentsToRemove, entitiesWithComponentsToRemove')
          /\ \A e \in Handles :
               IsPrefix(ent[e].componentsToRemove, ent'[e].componentsToRemove)
     /\ (tickPos # 0 /\ tickPos' = 0) =>
          /\ enabled'
          /\ \A s \in Range(systems) :
               Calls("execute", s) = IF shouldExecute(s) THEN 1 ELSE 0
          /\ entitiesToRemove' = <<>> /\ entitiesWithComponentsToRemove' = <<>>
          /\ Calls("processDeferredRemoval", 0) = 0
          /\ Count(tickLog', <<"processDeferredRemoval", 0>>) = 1
          /\ \A e \in PendingEntities : ent'[e].componentsToRemove = <<>>]_vars

\* The world is stopped after a tick, with removals pending and a buffer filled.
StoppedWorldWitness ==
  /\ ~enabled
  /\ tickLog # <<>>
  /\ entitiesToRemove # <<>>
  /\ entitiesWithComponentsToRemove # <<>>
  /\ \E b \in DOMAIN events : events[b] # <<>>

----
\* Entity ids: entities are created and removed, at once or deferred, and the
\* ids are followed.

IdHandles == 2
IdQueue == 2
IdFree == 3
MaxId == 8
IdLimits == Limits(IdHandles, 0, 0, IdQueue, IdFree, 0, MaxId)

IdCreateEntity == CreateEntity(IdLimits)
IdRemoveEntity == \E e \in Allocated : \E f \in BOOLEAN : RemoveEntity(IdLimits, e, f)
IdProcessDeferredRemoval == ProcessDeferredRemoval(IdLimits)

NextIds ==
  \/ IdCreateEntity
  \/ IdRemoveEntity
  \/ IdProcessDeferredRemoval

SpecIds == Init /\ [][NextIds]_vars

\* entity.id
id(e) == ent[e].id

\* The ids given so far are below nextId, which never decreases, and the entity
\* a createEntity returns has an id of at least nextId: the ids returned are
\* strictly increasing.
IdsIncrease ==
  /\ \A e \in Allocated : id(e) < nextId
  /\ nextId' >= nextId
  /\ Len(entities') = Len(entities) + 1 => ent'[Last(entities')].id >= nextId

UniqueIds ==
  \A i \in DOMAIN entities : \A j \in DOMAIN entities :
    i # j => id(entities[i]) # id(entities[j])

\* C19: the ids of the entities successive createEntity calls return are
\* strictly increasing, and no two entries of the entity list carry the same id.
EntityIds == [][IdsIncrease /\ UniqueIds]_vars

----
\* Recycled component instances: the component classes have an __init, a copy,
\* a reset or none of them; entities take components with and without values and
\* lose them at once.

ResetHandles == 2
ResetInstances == 2
ResetFree == 2
ResetLimits == Limits(ResetHandles, ResetInstances, 0, 0, ResetFree, 0, 0)

InitReset == \E kind \in HookKinds : Construct([C \in ComponentClasses |-> kind])

ResetCreateEntity == CreateEntity(ResetLimits)
ResetAddComponent ==
  \E e \in Allocated : \E C \in ComponentClasses : \E v \in Values :
    AddComponentWith(ResetLimits, e, C, v)
ResetRemoveComponent ==
  \E e \in Allocated : \E C \in ComponentClasses :
    RemoveComponent(ResetLimits, e, C, TRUE)

NextReset ==
  \/ ResetCreateEntity
  \/ ResetAddComponent
  \/ ResetRemoveComponent

SpecReset == InitReset /\ [][NextReset]_vars

\* C20: the instance addComponent(E, T) attaches when no values are passed has
\* the field values of T's initial object, whatever the class offers (__init,
\* copy, reset or nothing) and whatever was written into the instance before.
RecycledInitial ==
  \A e \in Handles : \A C \in ComponentClasses :
    ent[e].world /\ ~hasComponent(e, C) =>
      LET S == entityAddComponent(World, e, C, undefined)
      IN ~S.thrown => S.fields[C][S.ent[e].components[C]] = initialObject

----
\* The reactive-change scenario: a Watcher system is registered, entities are
\* created and take A, and getMutableComponent(A) is called on entities that
\* hold A, by the host between ticks or by the system during its execute; the
\* calls are entered in the tick's log with their caller (0: the host).

ReactHandles == 2
ReactInstances == 2
ReactFree == 2
ReactCalls == 2
ReactLimits == Limits(ReactHandles, ReactInstances, 0, 0, ReactFree, 0, 0)

\* The getMutableComponent calls in the log.
Mutations(log) == {i \in DOMAIN log : log[i][1] = "getMutableComponent"}

ReactRegisterSystem ==
  /\ tickPos = 0
  /\ RegisterSystem(ReactLimits, 1, "Watcher", 0)
ReactCreateEntity == CreateEntity(ReactLimits)
ReactAddComponent == \E e \in Allocated : AddComponent(ReactLimits, e, "A")
ReactGetMutableComponent ==
  \E e \in Allocated :
    /\ CanCall
    /\ sys # <<>>
    /\ ent[e].world
    /\ IndexOf(ent[e].ComponentTypes, "A") # 0
    /\ Cardinality(Mutations(tickLog)) < ReactCalls
    /\ LET S == getMutableComponent(World, e, "A")
       IN Bounded(S, ReactLimits) /\ Commit(S)
    /\ tickLog' = Append(tickLog, <<"getMutableComponent", executing, e>>)
    /\ UNCHANGED <<systems, sys, enabled, tickPos, tickSystems, executing>>
ReactExecuteEnd == ExecuteEnd(ReactLimits)

NextReact ==
  \/ ReactRegisterSystem
  \/ ReactCreateEntity
  \/ ReactAddComponent
  \/ ReactGetMutableComponent
  \/ ExecuteStart
  \/ SystemExecute
  \/ SystemReturn
  \/ ReactExecuteEnd

SpecReact == Init /\ [][NextReact]_vars

\* The EntityChanged buffer of a Watcher.
Changed(system) == events[<<system, "q", "changed">>]

\* The next tick starts: world.execute is called on an enabled world.
TickStarts == tickPos = 0 /\ tickPos' = 1

\* The entities changed by the caller (0: the host) since the last tick started.
ChangedBy(caller) ==
  {tickLog[i][3] : i \in {j \in Mutations(tickLog) : tickLog[j][2] = caller}}

\* C21, as stated: an entity the system has changed during its execute is in
\* the system's EntityChanged buffer when the next tick starts, and after a tick
\* without a change the buffer is empty when the next tick starts.
ReactiveChangeScenario ==
  [][TickStarts =>
       \A s \in DOMAIN sys :
         /\ \A e \in ChangedBy(s) : Changed(s) # <<>> /\ IndexOf(Changed(s), e) # 0
         /\ Mutations(tickLog) = {} => Changed(s) = <<>>]_vars

\* Where the log has the system's clearEvents (0: the system has not run).
Cleared(system) == IndexOf(tickLog, <<"clearEvents", system>>)

\* The entities changed, by anyone, after the system's clearEvents.
ChangedSince(system) ==
  {tickLog[i][3] : i \in {j \in Mutations(tickLog) : j > Cleared(system)}}

\* C21, amended: the call puts the entity into the buffer of the system, once;
\* clearEvents, right after the system's execute, empties the buffer, so that
\* when the next tick starts the buffer holds the entities changed after the
\* system's execute returned, and none the system changed during its execute.
ReactiveChange ==
  [][/\ \A e \in Handles :
          tickLog' = Append(tickLog, <<"getMutableComponent", executing, e>>) =>
            \A s \in DOMAIN sys : Count(events'[<<s, "q", "changed">>], e) = 1
     /\ (executing # 0 /\ executing' = 0) => events'[<<executing, "q", "changed">>] = <<>>
     /\ TickStarts =>
          \A s \in DOMAIN sys : Range(Changed(s)) = ChangedSince(s)]_vars

\* A tick has ended in which the system changed an entity during its execute,
\* and the system's buffer is empty.
ReactiveChangeWitness ==
  /\ tickPos = 0
  /\ \E s \in DOMAIN sys : ChangedBy(s) # {} /\ Changed(s) = <<>> /\ Cleared(s) # 0

----
\* Membership maintenance by the query manager.

\* The types the entity owns once Component is removed.
OwnedWithout(e, Component) == Range(ent[e].ComponentTypes) \ {Component}

\* The entity would satisfy the query after the removal of Component.
WouldSatisfy(key, e, Component) ==
  /\ Range(queries[key].Components) \subseteq OwnedWithout(e, Component)
  /\ Range(queries[key].NotComponents) \cap OwnedWithout(e, Component) = {}

Listed(S, key, e) == IndexOf(S.queries[key].entities, e) # 0

\* C22: removeComponent(E, T), at once or deferred, of a type E owns: a query
\* that forbids T and does not list E lists it afterwards only if E, without T,
\* satisfies the query; otherwise a query that requires T and lists E no longer
\* lists it.
RemoveMaintenance ==
  \A e \in Handles : \A T \in ComponentClasses : \A f \in BOOLEAN :
    ent[e].world /\ hasComponent(e, T) =>
      LET S == entityRemoveComponent(World, e, T, f)
      IN \A key \in DOMAIN queries :
           IF IndexOf(queries[key].NotComponents, T) # 0 /\ ~Listed(World, key, e)
           THEN Listed(S, key, e) => WouldSatisfy(key, e, T)
           ELSE IndexOf(queries[key].Components, T) # 0 /\ Listed(World, key, e)
                  => ~Listed(S, key, e)

\* The types the entity owns once Component is added.
OwnedWith(e, Component) == Range(ent[e].ComponentTypes) \cup {Component}

\* The entity satisfies the query once it owns Component.
SatisfiesWith(key, e, Component) ==
  /\ Range(queries[key].Components) \subseteq OwnedWith(e, Component)
  /\ Range(queries[key].NotComponents) \cap OwnedWith(e, Component) = {}

\* C23: addComponent(E, T) of a type E does not own: a query that forbids T and
\* lists E loses E; otherwise a query that requires T, does not list E and is
\* satisfied by E gains E at its end; the entity list of every other query is
\* as before.
AddMaintenance ==
  \A e \in Handles : \A T \in ComponentClasses : \A v \in Values :
    ent[e].world /\ ~hasComponent(e, T) =>
      LET S == entityAddComponent(World, e, T, v)
      IN \A key \in DOMAIN queries :
           S.queries[key].entities =
             IF IndexOf(queries[key].NotComponents, T) # 0 /\ Listed(World, key, e)
             THEN Splice1(queries[key].entities, IndexOf(queries[key].entities, e))
             ELSE IF /\ IndexOf(queries[key].Components, T) # 0
                     /\ ~Listed(World, key, e)
                     /\ SatisfiesWith(key, e, T)
             THEN Append(queries[key].entities, e)
             ELSE queries[key].entities

\* The entity matches a Components array: it owns every type asked for and none
\* of those under Not.
Matches(Components, e) ==
  \A n \in DOMAIN Components :
    (Components[n].Component \in Owned(e)) <=> (Components[n].operator = "")

\* C24: a query made by getQuery lists exactly the entities of the entity list
\* that match it, in the order of the entity list; the list of queries of each
\* of them gains the query, at its end, and that of no other entity changes; no
\* event is dispatched and no listener is called.
QueryConstruction ==
  \A r \in KeyRequests :
    queryKey(r) \notin DOMAIN queries =>
      LET key == queryKey(r)
          S == getQuery(World, r)
          hits == SelectSeq(entities, LAMBDA e : Matches(r, e))
      IN /\ S.queries[key].entities = hits
         /\ \A e \in Handles :
              S.ent[e].queries = ent[e].queries \o [i \in 1..Count(hits, e) |-> key]
         /\ S.fired = <<>> /\ S.called = <<>>

\* Two entities of the list own A, the first of them is in another query, and no
\* query of A alone has been made.
QueryConstructionWitness ==
  /\ queryKey(<<Comp("A")>>) \notin DOMAIN queries
  /\ Len(entities) = 2 /\ entities[1] # entities[2]
  /\ \A i \in DOMAIN entities : Matches(<<Comp("A")>>, entities[i])
  /\ ent[entities[1]].queries # <<>>

\* Every dispatchEvent of the call found each query's entity list as the call
\* leaves it.
Updated(S) == \A i \in DOMAIN S.seen : S.seen[i].entities = Lists(S).entities

\* C25: the query index update precedes event emission.  Whenever addComponent or
\* removeComponent calls the listeners of a dispatcher, a query's for EntityAdded
\* or EntityRemoved or the entity manager's for ComponentAdded or
\* ComponentRemove, every query's entity list is already what the call makes it.
IndexBeforeEmission ==
  \A e \in Allocated, C \in ComponentClasses :
    ent[e].world =>
      /\ \A v \in Values : Updated(entityAddComponent(World, e, C, v))
      /\ \A f \in BOOLEAN : Updated(entityRemoveComponent(World, e, C, f))

\* What a call's dispatchEvents found, each at its place in the call: the
\* listeners of a query find that query's list as the call leaves it, those of
\* the manager's ComponentAdded find every list so, and those of the manager's
\* ComponentRemove find every list as it was before the call.
InOrder(S) ==
  \A i \in DOMAIN S.seen :
    IF S.fired[i].dispatcher # <<>>
    THEN S.seen[i].entities[S.fired[i].dispatcher] =
           Lists(S).entities[S.fired[i].dispatcher]
    ELSE IF S.fired[i].eventName = COMPONENT_ADDED
    THEN S.seen[i].entities = Lists(S).entities
    ELSE S.seen[i].entities = Lists(World).entities

\* C25, amended: for every addComponent and removeComponent, a listener of a
\* query for EntityAdded or EntityRemoved is called when that query's entity
\* list reflects the mutation, a listener of the manager for ComponentAdded when
\* every query's list does, and a listener of the manager for ComponentRemove
\* before any list has changed.
EmissionOrder ==
  \A e \in Allocated, C \in ComponentClasses :
    ent[e].world =>
      /\ \A v \in Values : InOrder(entityAddComponent(World, e, C, v))
      /\ \A f \in BOOLEAN : InOrder(entityRemoveComponent(World, e, C, f))

\* An entity that addComponent has put into two queries: removing A takes it out
\* of both, with a listener called for one of them.
EmissionOrderWitness ==
  \E e \in Allocated :
    /\ ent[e].world
    /\ Len(ent[e].queries) = 2
    /\ LET S == entityRemoveComponent(World, e, "A", TRUE)
       IN Len(S.fired) = 3 /\ S.called # <<>> /\ ~S.thrown

\* The dispatchEvents of ENTITY_REMOVED by the entity manager in a call's log.
Removals(S) ==
  {i \in DOMAIN S.fired : /\ S.fired[i].dispatcher = <<>>
                          /\ S.fired[i].eventName = EntityManager_ENTITY_REMOVED}

\* C26: when the entity manager's EntityRemoved event for an entity is delivered
\* to a listener, all the components of the entity are still attached and the
\* entity is already absent from every query's entity list.
RemovedDelivery ==
  \A e \in Allocated, f \in BOOLEAN :
    LET S == removeEntity(World, e, f)
    IN \A i \in Removals(S) :
         /\ S.seen[i].ComponentTypes[e] = ent[e].ComponentTypes
         /\ S.seen[i].components[e] = ent[e].components
         /\ \A key \in DOMAIN queries : IndexOf(S.seen[i].entities[key], e) = 0

\* C26, amended: when the entity manager's EntityRemoved event for an entity is
\* delivered to a listener, all the components of the entity are still attached
\* and no query's entity list has changed yet: the entity is still in every list
\* that held it before the call.
RemovedBeforeIndex ==
  \A e \in Allocated, f \in BOOLEAN :
    LET S == removeEntity(World, e, f)
    IN \A i \in Removals(S) : S.seen[i] = Lists(World)

\* An entity of the list that owns two components and is in a query, which
\* removeEntity takes it out of.
RemovedBeforeIndexWitness ==
  \E e \in Allocated :
    /\ IndexOf(entities, e) # 0
    /\ Len(ent[e].ComponentTypes) = 2
    /\ ent[e].queries # <<>>
    /\ LET S == removeEntity(World, e, TRUE)
       IN /\ Removals(S) # {}
          /\ \E key \in DOMAIN queries : IndexOf(S.queries[key].entities, e) = 0
                                         /\ IndexOf(queries[key].entities, e) # 0

\* The query requires the type.
Requires(S, key, T) == IndexOf(S.queries[key].Components, T) # 0

\* C27: deferred component removal.  After removeComponent(E, T, false) on an
\* entity of the store that owns T and is not to be removed, E is absent from every query that requires T,
\* while E still has T among its types and the instance in its component map;
\* after the next processDeferredRemoval E no longer owns T, the instance is in
\* the free list of T's pool, E is still in the store's entity list, and E has no
\* pending detachments.
DeferredComponentRemoval ==
  \A e \in Allocated, T \in ComponentClasses :
    (/\ ent[e].world /\ IndexOf(entities, e) # 0 /\ IndexOf(entitiesToRemove, e) = 0
     /\ hasComponent(e, T)) =>
      LET S == entityRemoveComponent(World, e, T, FALSE)
          P == processDeferredRemoval(S)
      IN /\ \A key \in DOMAIN S.queries :
              Requires(S, key, T) => IndexOf(S.queries[key].entities, e) = 0
         /\ IndexOf(S.ent[e].ComponentTypes, T) # 0
         /\ S.ent[e].components[T] = ent[e].components[T]
         /\ S.ent[e].components[T] # undefined
         /\ IndexOf(P.ent[e].ComponentTypes, T) = 0
         /\ P.ent[e].components[T] = undefined
         /\ IndexOf(P.componentPool[T].freeList, ent[e].components[T]) # 0
         /\ IndexOf(P.entities, e) # 0
         /\ P.ent[e].componentsToRemove = <<>>

----
\* Ticks of a world whose system removes components and entities, deferred and
\* at once, while entities are made anew.

FlushHandles == 2
FlushInstances == 1
FlushPending == 2
FlushQueue == 1
FlushFree == 3
FlushLimits ==
  Limits(FlushHandles, FlushInstances, FlushPending, FlushQueue, FlushFree, 1, 0)

FlushRegisterSystem == RegisterSystem(FlushLimits, 1, "Mover", 0)
FlushCreateEntity == CreateEntity(FlushLimits)
FlushAddComponent == \E e \in Allocated : AddComponent(FlushLimits, e, "A")
\* The removals are those of the running system.
FlushRemoveComponent ==
  /\ executing # 0
  /\ \E e \in Allocated : \E f \in BOOLEAN : RemoveComponent(FlushLimits, e, "A", f)
FlushRemoveEntity ==
  /\ executing # 0
  /\ \E e \in Allocated : \E f \in BOOLEAN : RemoveEntity(FlushLimits, e, f)
FlushExecuteEnd == ExecuteEnd(FlushLimits)

NextFlush ==
  \/ FlushRegisterSystem
  \/ FlushCreateEntity
  \/ FlushAddComponent
  \/ FlushRemoveComponent
  \/ FlushRemoveEntity
  \/ ExecuteStart
  \/ SystemExecute
  \/ SystemReturn
  \/ FlushExecuteEnd

SpecFlush == Init /\ [][NextFlush]_vars

\* world.execute returns.
TickReturns == tickPos # 0 /\ tickPos' = 0

\* C28: deferred flush completeness.  Whenever a tick of an enabled world
\* returns, entitiesToRemove and entitiesWithComponentsToRemove are empty and no
\* entity object, in the entity list or in the entity pool, has a component left
\* in its componentsToRemove.
FlushComplete ==
  [][TickReturns =>
       /\ entitiesToRemove' = <<>>
       /\ entitiesWithComponentsToRemove' = <<>>
       /\ \A e \in Handles : ent'[e].componentsToRemove = <<>>]_vars

\* The systems of a tick have run; an entity is to be removed, an entity of the
\* list has two detachments pending, and an entity object of the pool's free list
\* has one: the flush empties the queues and the lists.
FlushCompleteWitness ==
  /\ tickPos > Len(tickSystems) /\ tickSystems # <<>>
  /\ entitiesToRemove # <<>>
  /\ \E e \in Allocated : /\ IndexOf(entities, e) # 0
                          /\ Len(ent[e].componentsToRemove) = 2
  /\ \E e \in Allocated : /\ IndexOf(entityPool.freeList, e) # 0
                          /\ ent[e].componentsToRemove # <<>>
  /\ LET S == processDeferredRemoval(World)
     IN /\ Bounded(S, FlushLimits)
        /\ S.entitiesToRemove = <<>> /\ S.entitiesWithComponentsToRemove = <<>>
        /\ \A e \in Handles : S.ent[e].componentsToRemove = <<>>

\* The listeners of ComponentChanged entries: those of a query's
\* COMPONENT_CHANGED topic that look at the component.
Filtered(key) ==
  {i \in DOMAIN queries[key].listeners[COMPONENT_CHANGED] :
     queries[key].listeners[COMPONENT_CHANGED][i].filtered}

\* C29: the buffer of a ComponentChanged entry with a components filter does not
\* deduplicate.  A getMutableComponent(T) call on an entity in the query's list
\* appends the entity to the buffer once when T is in the filter, also when the
\* buffer holds the entity already (two calls append two entries), and leaves
\* the buffer as it is when T is not in the filter.
NoDeduplication ==
  \A key \in DOMAIN queries : \A i \in Filtered(key) :
    LET l == queries[key].listeners[COMPONENT_CHANGED][i]
    IN \A e \in Allocated : \A T \in ComponentClasses :
         IndexOf(queries[key].entities, e) # 0 =>
           LET S == getMutableComponent(World, e, T)
               S2 == getMutableComponent(S, e, T)
           IN IF IndexOf(l.components, T) # 0
              THEN /\ S.events[l.buffer] = Append(events[l.buffer], e)
                   /\ S2.events[l.buffer] = Append(Append(events[l.buffer], e), e)
              ELSE /\ S.events[l.buffer] = events[l.buffer]
                   /\ S2.events[l.buffer] = events[l.buffer]

----
\* EventDispatcher, as the world's dispatcher: World.addEventListener,
\* removeEventListener and emitEvent, whose callbacks add and remove callbacks.

addEventListener(L, eventName, listener) ==
  IF IndexOf(L[eventName], listener) = 0
  THEN [L EXCEPT ![eventName] = Append(@, listener)]
  ELSE L

removeEventListener(L, eventName, listener) ==
  LET index == IndexOf(L[eventName], listener)
  IN IF index # 0 THEN [L EXCEPT ![eventName] = Splice1(@, index)] ELSE L

\* var array = listenerArray.slice(0)
array == emit.array

\* A call of addEventListener / removeEventListener, by the host or by a callback.
Subscribe(eventName, listener) ==
  /\ listeners' = addEventListener(listeners, eventName, listener)
  /\ subscribed' = [subscribed EXCEPT ![eventName][listener] =
                      IF @ < MaxAdded THEN @ + 1 ELSE @]

Unsubscribe(eventName, listener) ==
  /\ listeners' = removeEventListener(listeners, eventName, listener)
  /\ subscribed' = [subscribed EXCEPT ![eventName][listener] = 0]

\* array[i].call(this, entity, component), up to what the callback does; next
\* is the index the loop goes on with (0: the call has ended the loop).
Call(next) ==
  /\ emit.i # 0
  /\ emit.i <= Len(array)
  /\ emit' = [emit EXCEPT !.invoked = Append(@, array[emit.i]), !.i = next]

EmitAddEventListener ==
  /\ emit.i = 0
  /\ \E eventName \in EventNames, listener \in Callbacks : Subscribe(eventName, listener)
  /\ UNCHANGED <<emit, worldVars, schedVars>>

EmitRemoveEventListener ==
  /\ emit.i = 0
  /\ \E eventName \in EventNames, listener \in Callbacks : Unsubscribe(eventName, listener)
  /\ UNCHANGED <<emit, worldVars, schedVars>>

\* World.emitEvent enters dispatchEvent: the array is copied.
EmitStart ==
  /\ emit.i = 0
  /\ \E eventName \in EventNames :
       emit' = [eventName |-> eventName, array |-> listeners[eventName], i |-> 1,
                invoked |-> <<>>, expected |-> subscribed[eventName]]
  /\ UNCHANGED <<listeners, subscribed, worldVars, schedVars>>

\* The callback called does nothing to the dispatcher.
ListenerReturns ==
  /\ Call(emit.i + 1)
  /\ UNCHANGED <<listeners, subscribed, worldVars, schedVars>>

\* The callback called adds a callback.
ListenerAdds ==
  /\ Call(emit.i + 1)
  /\ \E eventName \in EventNames, listener \in Callbacks : Subscribe(eventName, listener)
  /\ UNCHANGED <<worldVars, schedVars>>

\* The callback called removes a callback.
ListenerRemoves ==
  /\ Call(emit.i + 1)
  /\ \E eventName \in EventNames, listener \in Callbacks : Unsubscribe(eventName, listener)
  /\ UNCHANGED <<worldVars, schedVars>>

\* The callback called throws: nothing catches it, and dispatchEvent and
\* emitEvent end there.
ListenerThrows ==
  /\ Call(0)
  /\ UNCHANGED <<listeners, subscribed, worldVars, schedVars>>

\* The loop is over and dispatchEvent returns; the record of its calls stays.
EmitEnd ==
  /\ emit.i # 0
  /\ emit.i > Len(array)
  /\ emit' = [emit EXCEPT !.i = 0]
  /\ UNCHANGED <<listeners, subscribed, worldVars, schedVars>>

NextEmit ==
  \/ EmitAddEventListener
  \/ EmitRemoveEventListener
  \/ EmitStart
  \/ ListenerReturns
  \/ ListenerAdds
  \/ ListenerRemoves
  \/ ListenerThrows
  \/ EmitEnd

SpecEmit == Init /\ [][NextEmit]_vars

\* An emit has been made and is over.
EmitOver == emit.eventName # "" /\ emit.i = 0

\* C30: dispatcher snapshot semantics.  An emit calls no callback twice and none
\* that was not subscribed to the event name when it started, and when it is
\* over it has called once each callback that was, those added twice and those
\* removed by a callback during the emit too, and none added during it.
SnapshotDispatch ==
  /\ \A c \in Callbacks :
       /\ Count(emit.invoked, c) <= 1
       /\ Count(emit.invoked, c) = 1 => emit.expected[c] > 0
  /\ EmitOver => \A c \in Callbacks : emit.expected[c] > 0 => Count(emit.invoked, c) = 1

----
\* An ObjectPool by itself: aquire and release of the pool of A.

GrowCount == 9
GrowFree == 2

\* The items of the pool that a caller holds.
Held(pool) == (1..pool.count) \ Range(pool.freeList)

GrowAquire ==
  LET a == aquire(componentPool["A"])
  IN /\ a.pool.count <= GrowCount
     /\ Commit([World EXCEPT !.componentPool["A"] = a.pool])
     /\ UNCHANGED schedVars

GrowRelease ==
  /\ Len(componentPool["A"].freeList) < GrowFree
  /\ \E item \in Held(componentPool["A"]) :
       Commit([World EXCEPT !.componentPool["A"] = release(@, item)])
  /\ UNCHANGED schedVars

NextGrow ==
  \/ GrowAquire
  \/ GrowRelease

SpecGrow == Init /\ [][NextGrow]_vars

\* By how many instances aquire makes the pool grow.
Growth(pool) == aquire(pool).pool.count - pool.count

\* C31: pool growth policy.  When aquire is called on a pool whose free list is
\* empty and whose count is c, the pool grows by ceil(0.2 * c) + 1 instances:
\* the least g with 5 * (g - 1) >= c.
GrowthCeil ==
  LET pool == componentPool["A"]
      g == Growth(pool)
  IN pool.freeList = <<>> =>
       /\ g >= 1
       /\ 5 * (g - 1) >= pool.count
       /\ 5 * (g - 2) < pool.count

\* C31, amended: when aquire is called on a pool whose free list is empty and
\* whose count is c, the pool grows by round(0.2 * c) + 1 instances, the g for
\* which 5 * (g - 1) is the multiple of 5 nearest to c, before it pops one; a
\* pool with a free item does not grow.
GrowthRound ==
  LET pool == componentPool["A"]
      g == Growth(pool)
  IN IF pool.freeList = <<>>
     THEN /\ g >= 1
          /\ 5 * (g - 1) - pool.count \in -2..2
          /\ Len(aquire(pool).pool.freeList) = g - 1
          /\ aquire(pool).item = pool.count + g
     ELSE g = 0

\* A pool of seven instances, all held: aquire makes two more (ceil(1.4) + 1
\* would be three).
GrowthRoundWitness ==
  /\ componentPool["A"].count = 7
  /\ componentPool["A"].freeList = <<>>
  /\ Growth(componentPool["A"]) = 2

\* The entities that have an instance of the type attached.
Attached(T) == {e \in Handles : ent[e].components[T] # undefined}

\* C32: live-instance count.  For every component type, after any sequence of
\* registerComponent, addComponent, removeComponent, removeEntity and
\* processDeferredRemoval, numComponents of the type is the number of entities
\* that have an instance of it attached, and is not negative.
LiveCount ==
  \A T \in ComponentClasses :
    /\ numComponents[T] = Cardinality(Attached(T))
    /\ numComponents[T] >= 0

\* A query's entity list after the events a call's log holds for the query, from
\* the i-th on: ENTITY_ADDED puts the entity at the end and ENTITY_REMOVED takes
\* its first entry out; an ENTITY_REMOVED for an entity the list does not hold
\* leaves a -1 in the list, which no entity list has.
RECURSIVE Replay(_, _, _, _)
Replay(list, log, i, key) ==
  IF i > Len(log) THEN list
  ELSE Replay(IF log[i].dispatcher # key THEN list
              ELSE IF log[i].eventName = ENTITY_ADDED THEN Append(list, log[i].entity)
              ELSE IF log[i].eventName = ENTITY_REMOVED
                   THEN IF IndexOf(list, log[i].entity) # 0
                        THEN Splice1(list, IndexOf(list, log[i].entity))
                        ELSE <<-1>> \o list
              ELSE list,
              log, i + 1, key)

\* The events of the call are the changes of the lists of the queries there
\* were before it, one event for each change.
Accounted(S) ==
  \A key \in DOMAIN queries :
    S.queries[key].entities = Replay(queries[key].entities, S.fired, 1, key)

\* C33: after a query's construction every change of its entity list comes with
\* exactly one event of the query: an entity that enters the list with one
\* ENTITY_ADDED for it, an entity that leaves it with one ENTITY_REMOVED, and
\* neither is dispatched when the list does not change.
MembershipEvents ==
  /\ Accounted(createEntity(World))
  /\ Accounted(processDeferredRemoval(World))
  /\ \A r \in StoreRequests : Accounted(getQuery(World, r))
  /\ \A e \in Allocated :
       /\ \A f \in BOOLEAN : Accounted(removeEntity(World, e, f))
       /\ \A C \in ComponentClasses :
            /\ Accounted(getMutableComponent(World, e, C))
            /\ \A v \in Values : Accounted(entityAddComponent(World, e, C, v))
            /\ \A f \in BOOLEAN : Accounted(entityRemoveComponent(World, e, C, f))

\* Two queries, and an entity in one of them: removing it at once takes it out
\* of a list with ENTITY_REMOVED and puts it into one with ENTITY_ADDED.
MembershipEventsWitness ==
  \E e \in Allocated :
    /\ Len(ent[e].queries) >= 1
    /\ Cardinality(DOMAIN queries) = 2
    /\ LET S == removeEntity(World, e, TRUE)
       IN /\ ~S.thrown
          /\ \E i \in DOMAIN S.fired : S.fired[i].eventName = ENTITY_REMOVED
          /\ \E i \in DOMAIN S.fired : S.fired[i].eventName = ENTITY_ADDED

\* ---------------------------------------------------------------------------
\* C34: a second removeComponent(E, T, false) before processDeferredRemoval
\* changes nothing of the outcome: after the flush E has lost exactly T, its
\* other types and instances are as before, T's pool received exactly one
\* instance more and T's live count is one less.
RepeatedRemoveComponent ==
  \A e \in Allocated, T \in ComponentClasses :
    (/\ ent[e].world /\ IndexOf(entities, e) # 0 /\ IndexOf(entitiesToRemove, e) = 0
     /\ entitiesToRemove = <<>> /\ entitiesWithComponentsToRemove = <<>>
     /\ ent[e].componentsToRemove = <<>>
     /\ hasComponent(e, T)) =>
      LET S1 == entityRemoveComponent(World, e, T, FALSE)
          S2 == entityRemoveComponent(S1, e, T, FALSE)
          P == processDeferredRemoval(S2)
      IN /\ P.ent[e].ComponentTypes =
              Splice1(ent[e].ComponentTypes, IndexOf(ent[e].ComponentTypes, T))
         /\ \A C \in ComponentClasses \ {T} :
              P.ent[e].components[C] = ent[e].components[C]
         /\ P.ent[e].components[T] = undefined
         /\ P.componentPool[T].freeList =
              Append(componentPool[T].freeList, ent[e].components[T])
         /\ P.numComponents[T] = numComponents[T] - 1
         /\ P = processDeferredRemoval(S1)

\* ---------------------------------------------------------------------------
\* C35: a second removeEntity(E, false) before processDeferredRemoval removes
\* only E: after the flush every other entity is still in the entity list, and
\* E is in the free list of the entity pool exactly once.
RepeatedRemoveEntity ==
  \A e \in Allocated :
    (/\ ent[e].world /\ IndexOf(entities, e) # 0
     /\ entitiesToRemove = <<>> /\ entitiesWithComponentsToRemove = <<>>
     /\ Count(entities, e) = 1 /\ IndexOf(entityPool.freeList, e) = 0) =>
      LET S1 == removeEntity(World, e, FALSE)
          S2 == removeEntity(S1, e, FALSE)
          P == processDeferredRemoval(S2)
      IN /\ ~S2.thrown
         /\ \A o \in Allocated \ {e} :
              Count(P.entities, o) = Count(entities, o)
         /\ IndexOf(P.entities, e) = 0
         /\ Count(P.entityPool.freeList, e) = 1

\* ---------------------------------------------------------------------------
\* C36: addComponent(E, T) while a deferred removal of T from E is pending, and
\* no removeComponent after it: after the next processDeferredRemoval E owns T
\* and is in the list of every query it matches.
AddAfterDeferredRemoval ==
  \A e \in Allocated, T \in ComponentClasses, v \in Values :
    (/\ ent[e].world /\ IndexOf(entities, e) # 0
     /\ entitiesToRemove = <<>> /\ entitiesWithComponentsToRemove = <<>>
     /\ ent[e].componentsToRemove = <<>>
     /\ hasComponent(e, T)) =>
      LET S1 == entityRemoveComponent(World, e, T, FALSE)
          S2 == entityAddComponent(S1, e, T, v)
          P == processDeferredRemoval(S2)
      IN /\ IndexOf(P.ent[e].ComponentTypes, T) # 0
         /\ P.ent[e].components[T] # undefined
         /\ \A key \in DOMAIN P.queries :
              match(P, key, e) => IndexOf(P.queries[key].entities, e) # 0

\* ---------------------------------------------------------------------------
\* C37: the entity createEntity returns, new or recycled, starts clean: no
\* component types, no instances, no tags, no query memberships, an empty
\* componentsToRemove, in neither deferred queue, and once in the entity list.
CreatedClean ==
  LET S == createEntity(World)
      e == aquire(entityPool).item
  IN /\ S.ent[e].ComponentTypes = <<>>
     /\ \A C \in ComponentClasses : S.ent[e].components[C] = undefined
     /\ S.ent[e].tags = <<>>
     /\ \A tag \in DOMAIN S.tags : IndexOf(S.tags[tag], e) = 0
     /\ S.ent[e].queries = <<>>
     /\ \A key \in DOMAIN S.queries : IndexOf(S.queries[key].entities, e) = 0
     /\ S.ent[e].componentsToRemove = <<>>
     /\ IndexOf(S.entitiesToRemove, e) = 0
     /\ IndexOf(S.entitiesWithComponentsToRemove, e) = 0
     /\ Count(S.entities, e) = 1

\* ---------------------------------------------------------------------------
\* C38: in every reachable state a query is in entity.queries exactly if the
\* entity is in query.entities, and neither list has an entry twice.
BackReferences ==
  \A e \in Handles :
    /\ \A key \in DOMAIN queries :
         IndexOf(ent[e].queries, key) # 0 <=> IndexOf(queries[key].entities, e) # 0
    /\ \A i \in DOMAIN ent[e].queries : Count(ent[e].queries, ent[e].queries[i]) = 1
    /\ \A key \in DOMAIN queries : Count(queries[key].entities, e) <= 1

----
\* The store with queries that forbid no type, and with every removal forced.
BaseHandles == 2
BaseInstances == 2
BaseFree == 2
BaseLimits == Limits(BaseHandles, BaseInstances, 0, 0, BaseFree, 0, 0)

BaseRequests == {<<Comp("A")>>, <<Comp("B")>>, <<Comp("A"), Comp("B")>>}

BaseCreateEntity == CreateEntity(BaseLimits)
BaseAddComponent ==
  \E e \in Allocated : \E C \in ComponentClasses : AddComponent(BaseLimits, e, C)
BaseRemoveComponent ==
  \E e \in Allocated : \E C \in ComponentClasses : RemoveComponent(BaseLimits, e, C, TRUE)
BaseRemoveEntity == \E e \in Allocated : RemoveEntity(BaseLimits, e, TRUE)
BaseGetQuery == \E r \in BaseRequests : GetQuery(BaseLimits, r)

NextBase ==
  \/ BaseCreateEntity
  \/ BaseAddComponent
  \/ BaseRemoveComponent
  \/ BaseRemoveEntity
  \/ BaseGetQuery

SpecBase == Init /\ [][NextBase]_vars

\* C39: with queries that forbid nothing and forced removals only, after every
\* store operation an entity of the store is in a query's list exactly if it
\* owns every required type of the query, and an entity outside the store is in
\* no query's list.
BaselineSoundness ==
  \A key \in DOMAIN queries : \A e \in Handles :
    IF e \in Range(entities)
    THEN InQuery(key, e) <=> Range(queries[key].Components) \subseteq Owned(e)
    ELSE ~InQuery(key, e)

\* Two queries, an entity that was removed and released, and an entity of the
\* store that owns A without B: it is in the list of one query and not in that
\* of a query that requires B.
BaselineSoundnessWitness ==
  /\ Cardinality(DOMAIN queries) >= 2
  /\ entityPool.freeList # <<>>
  /\ \E e \in Range(entities) : \E k1, k2 \in DOMAIN queries :
       /\ InQuery(k1, e) /\ ~InQuery(k2, e)
       /\ "B" \in Range(queries[k2].Components)
       /\ Owned(e) = {"A"}

\* ---------------------------------------------------------------------------
\* C40: while no query forbids a type, immediately after processDeferredRemoval
\* every entity in a query's list owns every required type of the query, also
\* when a component was added or a query was created while a removal was
\* pending.
QuiescentSoundness ==
  (\A key \in DOMAIN queries : queries[key].NotComponents = <<>>) =>
    LET P == processDeferredRemoval(World)
    IN \A key \in DOMAIN P.queries : \A i \in DOMAIN P.queries[key].entities :
         Range(P.queries[key].Components) \subseteq
           Range(P.ent[P.queries[key].entities[i]].ComponentTypes)

====
